---- MODULE Spec2Model ----
(***************************************************************************)
(* Token channel of the offst funder: two friends hold a mutual credit     *)
(* ledger each and pass a signed, hash-chained move token back and forth.  *)
(* The module models components/funder/src/token_channel.rs over the       *)
(* ledger of src/funder/token_channel/types.rs.                            *)
(***************************************************************************)
EXTENDS Integers, Sequences, FiniteSets, TLC

(***************************************************************************)
(* Bounds of the model.  Widths are scaled down: the 128-bit ledger words  *)
(* are WordBits wide and the move token counter counts modulo              *)
(* MoveTokenCounterMax + 1.                                                *)
(***************************************************************************)
NumKeys == 2
WordBits == 3
MoveTokenCounterMax == 2
MaxSignatures == 3
MaxOperations == 2
InconsistencyCounterMax == 2

PublicKeys == 1 .. NumKeys
Sides == {1, 2}
Peer(s) == 3 - s

U128Modulus == 2 ^ WordBits
U128Max == U128Modulus - 1
I128Max == (2 ^ (WordBits - 1)) - 1
I128Min == 0 - (2 ^ (WordBits - 1))
MAX_FUNDER_DEBT == (2 ^ (WordBits - 1)) - 1

AsU128(x) == x % U128Modulus
MaxOf(a, b) == IF a >= b THEN a ELSE b
MinOf(a, b) == IF a <= b THEN a ELSE b

(***************************************************************************)
(* Ledger: src/funder/token_channel/types.rs                               *)
(***************************************************************************)
TcBalanceNew(balance) ==
    [ balance            |-> balance,
      remote_max_debt    |-> AsU128(MaxOf(balance, 0)),
      local_max_debt     |-> AsU128(MinOf(0 - balance, 0)),
      local_pending_debt |-> 0,
      remote_pending_debt |-> 0 ]

MutualCreditNew(local_public_key, remote_public_key, balance) ==
    [ local_public_key  |-> local_public_key,
      remote_public_key |-> remote_public_key,
      balance           |-> TcBalanceNew(balance),
      pending_local_requests  |-> {},
      pending_remote_requests |-> {},
      local_requests_status   |-> "Closed",
      remote_requests_status  |-> "Closed" ]

\* ImHashMap::insert keyed by request_id: an entry of the same id is replaced.
MapInsert(map, req) == {r \in map : r.request_id # req.request_id} \cup {req}
\* Variant of remove that also drops the entries of smaller ids.
MapRemoveUpTo(map, id) == {r \in map : r.request_id > id}
\* ImHashMap::remove: removing an absent id leaves the map as it is.
MapRemove(map, id) == {r \in map : r.request_id # id}
MapContains(map, id) == \E r \in map : r.request_id = id
MapGet(map, id) == CHOOSE r \in map : r.request_id = id

\* Variant of the ledger's mutate in which SetLocalPendingDebt writes the
\* remote pending debt.
McMutateCrossedDebt(mc, m) ==
    CASE m.type = "SetLocalRequestsStatus" ->
            [mc EXCEPT !.local_requests_status = m.status]
      [] m.type = "SetRemoteRequestsStatus" ->
            [mc EXCEPT !.remote_requests_status = m.status]
      [] m.type = "SetLocalMaxDebt" ->
            [mc EXCEPT !.balance.local_max_debt = m.value]
      [] m.type = "SetRemoteMaxDebt" ->
            [mc EXCEPT !.balance.remote_max_debt = m.value]
      [] m.type = "SetBalance" ->
            [mc EXCEPT !.balance.balance = m.value]
      [] m.type = "InsertLocalPendingRequest" ->
            [mc EXCEPT !.pending_local_requests = MapInsert(@, m.request)]
      [] m.type = "RemoveLocalPendingRequest" ->
            [mc EXCEPT !.pending_local_requests = MapRemove(@, m.request_id)]
      [] m.type = "InsertRemotePendingRequest" ->
            [mc EXCEPT !.pending_remote_requests = MapInsert(@, m.request)]
      [] m.type = "RemoveRemotePendingRequest" ->
            [mc EXCEPT !.pending_remote_requests = MapRemove(@, m.request_id)]
      [] m.type = "SetLocalPendingDebt" ->
            [mc EXCEPT !.balance.remote_pending_debt = m.value]
      [] m.type = "SetRemotePendingDebt" ->
            [mc EXCEPT !.balance.remote_pending_debt = m.value]

\* Variant of the ledger's mutate in which SetBalance also clears both
\* pending debts.
McMutateBalanceClears(mc, m) ==
    CASE m.type = "SetLocalRequestsStatus" ->
            [mc EXCEPT !.local_requests_status = m.status]
      [] m.type = "SetRemoteRequestsStatus" ->
            [mc EXCEPT !.remote_requests_status = m.status]
      [] m.type = "SetLocalMaxDebt" ->
            [mc EXCEPT !.balance.local_max_debt = m.value]
      [] m.type = "SetRemoteMaxDebt" ->
            [mc EXCEPT !.balance.remote_max_debt = m.value]
      [] m.type = "SetBalance" ->
            [mc EXCEPT !.balance.balance = m.value,
                       !.balance.local_pending_debt = 0,
                       !.balance.remote_pending_debt = 0]
      [] m.type = "InsertLocalPendingRequest" ->
            [mc EXCEPT !.pending_local_requests = MapInsert(@, m.request)]
      [] m.type = "RemoveLocalPendingRequest" ->
            [mc EXCEPT !.pending_local_requests = MapRemove(@, m.request_id)]
      [] m.type = "InsertRemotePendingRequest" ->
            [mc EXCEPT !.pending_remote_requests = MapInsert(@, m.request)]
      [] m.type = "RemoveRemotePendingRequest" ->
            [mc EXCEPT !.pending_remote_requests = MapRemove(@, m.request_id)]
      [] m.type = "SetLocalPendingDebt" ->
            [mc EXCEPT !.balance.local_pending_debt = m.value]
      [] m.type = "SetRemotePendingDebt" ->
            [mc EXCEPT !.balance.remote_pending_debt = m.value]

McMutate(mc, m) ==
    CASE m.type = "SetLocalRequestsStatus" ->
            [mc EXCEPT !.local_requests_status = m.status]
      [] m.type = "SetRemoteRequestsStatus" ->
            [mc EXCEPT !.remote_requests_status = m.status]
      [] m.type = "SetLocalMaxDebt" ->
            [mc EXCEPT !.balance.local_max_debt = m.value]
      [] m.type = "SetRemoteMaxDebt" ->
            [mc EXCEPT !.balance.remote_max_debt = m.value]
      [] m.type = "SetBalance" ->
            [mc EXCEPT !.balance.balance = m.value]
      [] m.type = "InsertLocalPendingRequest" ->
            [mc EXCEPT !.pending_local_requests = MapInsert(@, m.request)]
      [] m.type = "RemoveLocalPendingRequest" ->
            [mc EXCEPT !.pending_local_requests = MapRemove(@, m.request_id)]
      [] m.type = "InsertRemotePendingRequest" ->
            [mc EXCEPT !.pending_remote_requests = MapInsert(@, m.request)]
      [] m.type = "RemoveRemotePendingRequest" ->
            [mc EXCEPT !.pending_remote_requests = MapRemove(@, m.request_id)]
      [] m.type = "SetLocalPendingDebt" ->
            [mc EXCEPT !.balance.local_pending_debt = m.value]
      [] m.type = "SetRemotePendingDebt" ->
            [mc EXCEPT !.balance.remote_pending_debt = m.value]

RECURSIVE McMutateAll(_, _)
McMutateAll(mc, muts) ==
    IF muts = <<>> THEN mc
    ELSE McMutateAll(McMutate(mc, Head(muts)), Tail(muts))

(***************************************************************************)
(* Operations carried by a move token (FriendTcOp) and the two operation   *)
(* processors: process_operations_list on the receiving side and           *)
(* OutgoingMc::queue_operation on the sending side.                        *)
(***************************************************************************)
OpEnableRequests == [op |-> "EnableRequests", request_id |-> 0, value |-> 0]
OpDisableRequests == [op |-> "DisableRequests", request_id |-> 0, value |-> 0]
OpSetRemoteMaxDebt(v) == [op |-> "SetRemoteMaxDebt", request_id |-> 0, value |-> v]
OpRequestSendFunds(id, v) == [op |-> "RequestSendFunds", request_id |-> id, value |-> v]
OpResponseSendFunds(id) == [op |-> "ResponseSendFunds", request_id |-> id, value |-> 0]
OpFailureSendFunds(id) == [op |-> "FailureSendFunds", request_id |-> id, value |-> 0]

PendingRequest(op) == [request_id |-> op.request_id, dest_payment |-> op.value]

OpOk(muts) == [ok |-> TRUE, error |-> "", mc_mutations |-> muts]
OpErr(e) == [ok |-> FALSE, error |-> e, mc_mutations |-> <<>>]

\* process_operation: one received operation against the receiver's ledger.
ProcessOperation(mc, op) ==
    LET b == mc.balance IN
    CASE op.op = "EnableRequests" ->
            OpOk(<<[type |-> "SetRemoteRequestsStatus", status |-> "Open"]>>)
      [] op.op = "DisableRequests" ->
            OpOk(<<[type |-> "SetRemoteRequestsStatus", status |-> "Closed"]>>)
      [] op.op = "SetRemoteMaxDebt" ->
            IF op.value > MAX_FUNDER_DEBT THEN OpErr("RemoteMaxDebtTooLarge")
            ELSE OpOk(<<[type |-> "SetLocalMaxDebt", value |-> op.value]>>)
      [] op.op = "RequestSendFunds" ->
            IF mc.local_requests_status # "Open" THEN OpErr("RequestsAlreadyDisabled")
            ELSE IF MapContains(mc.pending_remote_requests, op.request_id)
                 THEN OpErr("RequestAlreadyExists")
            ELSE IF b.remote_pending_debt + op.value > U128Max
                 THEN OpErr("CreditsCalcOverflow")
            ELSE IF b.balance + b.remote_pending_debt + op.value > b.remote_max_debt
                 THEN OpErr("InsufficientTrust")
            ELSE OpOk(<<[type |-> "InsertRemotePendingRequest",
                         request |-> PendingRequest(op)],
                        [type |-> "SetRemotePendingDebt",
                         value |-> b.remote_pending_debt + op.value]>>)
      [] op.op = "ResponseSendFunds" ->
            IF ~MapContains(mc.pending_local_requests, op.request_id)
            THEN OpErr("RequestDoesNotExist")
            ELSE LET pay == MapGet(mc.pending_local_requests, op.request_id).dest_payment IN
                 IF b.local_pending_debt < pay \/ b.balance - pay < I128Min
                 THEN OpErr("CreditsCalcOverflow")
                 ELSE OpOk(<<[type |-> "RemoveLocalPendingRequest",
                              request_id |-> op.request_id],
                             [type |-> "SetLocalPendingDebt",
                              value |-> b.local_pending_debt - pay],
                             [type |-> "SetBalance", value |-> b.balance - pay]>>)
      [] op.op = "FailureSendFunds" ->
            IF ~MapContains(mc.pending_local_requests, op.request_id)
            THEN OpErr("RequestDoesNotExist")
            ELSE LET pay == MapGet(mc.pending_local_requests, op.request_id).dest_payment IN
                 IF b.local_pending_debt < pay THEN OpErr("CreditsCalcOverflow")
                 ELSE OpOk(<<[type |-> "RemoveLocalPendingRequest",
                              request_id |-> op.request_id],
                             [type |-> "SetLocalPendingDebt",
                              value |-> b.local_pending_debt - pay]>>)

\* process_operations_list: replays the list in order on the given (cloned)
\* ledger and stops at the first failing operation; the clone keeps the
\* effect of the operations before it.
RECURSIVE ProcessOperationsList(_, _)
ProcessOperationsList(mc, operations) ==
    IF operations = <<>>
    THEN [ok |-> TRUE, error |-> "", mutual_credit |-> mc, mc_mutations |-> <<>>]
    ELSE LET r == ProcessOperation(mc, Head(operations)) IN
         IF ~r.ok
         THEN [ok |-> FALSE, error |-> r.error, mutual_credit |-> mc,
               mc_mutations |-> <<>>]
         ELSE LET rest == ProcessOperationsList(McMutateAll(mc, r.mc_mutations),
                                                Tail(operations)) IN
              [rest EXCEPT !.mc_mutations = r.mc_mutations \o @]

\* OutgoingMc::queue_operation: one operation the local side wants to send.
QueueOperation(mc, op) ==
    LET b == mc.balance IN
    CASE op.op = "EnableRequests" ->
            OpOk(<<[type |-> "SetLocalRequestsStatus", status |-> "Open"]>>)
      [] op.op = "DisableRequests" ->
            OpOk(<<[type |-> "SetLocalRequestsStatus", status |-> "Closed"]>>)
      [] op.op = "SetRemoteMaxDebt" ->
            IF op.value > MAX_FUNDER_DEBT THEN OpErr("RemoteMaxDebtTooLarge")
            ELSE OpOk(<<[type |-> "SetRemoteMaxDebt", value |-> op.value]>>)
      [] op.op = "RequestSendFunds" ->
            IF mc.remote_requests_status # "Open" THEN OpErr("RemoteRequestsClosed")
            ELSE IF MapContains(mc.pending_local_requests, op.request_id)
                 THEN OpErr("RequestAlreadyExists")
            ELSE IF b.local_pending_debt + op.value > U128Max
                 THEN OpErr("CreditsCalcOverflow")
            ELSE IF b.local_pending_debt + op.value - b.balance > b.local_max_debt
                 THEN OpErr("InsufficientTrust")
            ELSE OpOk(<<[type |-> "InsertLocalPendingRequest",
                         request |-> PendingRequest(op)],
                        [type |-> "SetLocalPendingDebt",
                         value |-> b.local_pending_debt + op.value]>>)
      [] op.op = "ResponseSendFunds" ->
            IF ~MapContains(mc.pending_remote_requests, op.request_id)
            THEN OpErr("RequestDoesNotExist")
            ELSE LET pay == MapGet(mc.pending_remote_requests, op.request_id).dest_payment IN
                 IF b.remote_pending_debt < pay \/ b.balance + pay > I128Max
                 THEN OpErr("CreditsCalcOverflow")
                 ELSE OpOk(<<[type |-> "RemoveRemotePendingRequest",
                              request_id |-> op.request_id],
                             [type |-> "SetRemotePendingDebt",
                              value |-> b.remote_pending_debt - pay],
                             [type |-> "SetBalance", value |-> b.balance + pay]>>)
      [] op.op = "FailureSendFunds" ->
            IF ~MapContains(mc.pending_remote_requests, op.request_id)
            THEN OpErr("RequestDoesNotExist")
            ELSE LET pay == MapGet(mc.pending_remote_requests, op.request_id).dest_payment IN
                 IF b.remote_pending_debt < pay THEN OpErr("CreditsCalcOverflow")
                 ELSE OpOk(<<[type |-> "RemoveRemotePendingRequest",
                              request_id |-> op.request_id],
                             [type |-> "SetRemotePendingDebt",
                              value |-> b.remote_pending_debt - pay]>>)

\* OutgoingMc: new(mutual_credit, max_operations), queue_operation for each
\* operation, then done() -> (operations, mc_mutations).
RECURSIVE QueueOperations(_, _, _)
QueueOperations(mc, operations, room) ==
    IF operations = <<>>
    THEN [ok |-> TRUE, error |-> "", mutual_credit |-> mc, mc_mutations |-> <<>>]
    ELSE IF room = 0
    THEN [ok |-> FALSE, error |-> "MaxOperationsReached", mutual_credit |-> mc,
          mc_mutations |-> <<>>]
    ELSE LET r == QueueOperation(mc, Head(operations)) IN
         IF ~r.ok
         THEN [ok |-> FALSE, error |-> r.error, mutual_credit |-> mc,
               mc_mutations |-> <<>>]
         ELSE LET rest == QueueOperations(McMutateAll(mc, r.mc_mutations),
                                          Tail(operations), room - 1) IN
              [rest EXCEPT !.mc_mutations = r.mc_mutations \o @]

(***************************************************************************)
(* Hashing, placeholder tokens and the identity oracle.                    *)
(***************************************************************************)
\* sha_512_256 of a public key: injective on the keys of the model and not
\* monotone in the key (odd keys hash above every even key).
Sha(public_key) ==
    IF public_key % 2 = 1 THEN NumKeys + public_key ELSE public_key

\* The public key padded with zeros to the length of a signature: no key
\* has signed it.
TokenFromPublicKey(public_key) ==
    [signer |-> 0, buffer |-> [prefix |-> "KEY", public_key |-> public_key]]

\* The first RAND_VALUE_LEN bytes of the hash of the public key.
RandNonceFromPublicKey(public_key) == Sha(public_key)

\* IdentityClient::request_signature: a signature is determined by the
\* signing key and the signed buffer, and by nothing else.
RequestSignature(public_key, buffer) == [signer |-> public_key, buffer |-> buffer]

\* verify_signature: only the signature the owner of public_key issued for
\* this very buffer verifies.
VerifySignature(buffer, public_key, signature) ==
    signature = RequestSignature(public_key, buffer)

\* Signature::zero()
ZeroSignature == [signer |-> 0, buffer |-> [prefix |-> "ZERO"]]

(***************************************************************************)
(* FriendMoveToken                                                         *)
(***************************************************************************)
\* The signed part of a move token: every field but new_token.
SignatureBuff(m) ==
    [ prefix |-> "NEXT",
      operations |-> m.operations,
      old_token |-> m.old_token,
      inconsistency_counter |-> m.inconsistency_counter,
      move_token_counter |-> m.move_token_counter,
      balance |-> m.balance,
      local_pending_debt |-> m.local_pending_debt,
      remote_pending_debt |-> m.remote_pending_debt,
      rand_nonce |-> m.rand_nonce ]

UnsignedMoveToken(operations, old_token, inconsistency_counter, move_token_counter, balance, local_pending_debt, remote_pending_debt, rand_nonce) ==
    [ operations |-> operations,
      old_token |-> old_token,
      inconsistency_counter |-> inconsistency_counter,
      move_token_counter |-> move_token_counter,
      balance |-> balance,
      local_pending_debt |-> local_pending_debt,
      remote_pending_debt |-> remote_pending_debt,
      rand_nonce |-> rand_nonce,
      new_token |-> ZeroSignature ]

\* FriendMoveToken::new: fills the fields and asks the identity oracle for
\* new_token.
FriendMoveTokenNew(public_key, unsigned) ==
    [unsigned EXCEPT !.new_token = RequestSignature(public_key, SignatureBuff(unsigned))]

\* FriendMoveToken::verify
MoveTokenVerify(m, public_key) ==
    VerifySignature(SignatureBuff(m), public_key, m.new_token)

(***************************************************************************)
(* TokenChannel: components/funder/src/token_channel.rs                    *)
(***************************************************************************)
DirIncoming(m) == [tag |-> "Incoming", friend_move_token |-> m]
DirOutgoing(m, token_wanted, opt_prev) ==
    [ tag |-> "Outgoing", friend_move_token |-> m, token_wanted |-> token_wanted,
      opt_prev_incoming_move_token |-> opt_prev ]

None == <<>>
Some(x) == <<x>>

\* Variant of IsFirstSender that orders the raw keys, not their hashes.
IsFirstSenderByKey(local_public_key, remote_public_key) ==
    local_public_key < remote_public_key

IsFirstSender(local_public_key, remote_public_key) ==
    Sha(local_public_key) < Sha(remote_public_key)

FirstMoveTokenLower(local_public_key, remote_public_key) ==
    [ operations |-> <<>>,
      old_token |-> TokenFromPublicKey(local_public_key),
      inconsistency_counter |-> 0,
      move_token_counter |-> 0,
      balance |-> 0,
      local_pending_debt |-> 0,
      remote_pending_debt |-> 0,
      rand_nonce |-> RandNonceFromPublicKey(remote_public_key),
      new_token |-> TokenFromPublicKey(remote_public_key) ]

TokenChannelNew(local_public_key, remote_public_key) ==
    LET mutual_credit == MutualCreditNew(local_public_key, remote_public_key, 0)
        first_move_token_lower == FirstMoveTokenLower(local_public_key, remote_public_key)
    IN  IF IsFirstSender(local_public_key, remote_public_key)
        THEN [ direction |-> DirOutgoing(first_move_token_lower, FALSE, None),
               mutual_credit |-> mutual_credit ]
        ELSE [ direction |-> DirIncoming(first_move_token_lower),
               mutual_credit |-> mutual_credit ]

NewFromRemoteReset(local_public_key, remote_public_key, reset_move_token, balance) ==
    [ direction |-> DirIncoming(reset_move_token),
      mutual_credit |-> MutualCreditNew(local_public_key, remote_public_key, balance) ]

\* Variant of new_from_local_reset that forgets the last incoming token.
NewFromLocalResetForgetful(local_public_key, remote_public_key, reset_move_token, balance, opt_last_incoming_move_token) ==
    [ direction |-> DirOutgoing(reset_move_token, FALSE, None),
      mutual_credit |-> MutualCreditNew(local_public_key, remote_public_key, balance) ]

NewFromLocalReset(local_public_key, remote_public_key, reset_move_token, balance, opt_last_incoming_move_token) ==
    [ direction |-> DirOutgoing(reset_move_token, FALSE, opt_last_incoming_move_token),
      mutual_credit |-> MutualCreditNew(local_public_key, remote_public_key, balance) ]

WrappingAdd1(counter) == (counter + 1) % (MoveTokenCounterMax + 1)
CheckedAdd1(counter) ==
    IF counter = MoveTokenCounterMax THEN None ELSE Some(counter + 1)

GetCurMoveToken(tc) == tc.direction.friend_move_token

GetLastIncomingMoveToken(tc) ==
    IF tc.direction.tag = "Incoming" THEN Some(tc.direction.friend_move_token)
    ELSE tc.direction.opt_prev_incoming_move_token

IsOutgoing(tc) == tc.direction.tag = "Outgoing"

\* Variant of create_friend_move_token that signs in either direction.
CreateFriendMoveTokenAnyDirection(tc, operations, rand_nonce) ==
    LET friend_move_token == tc.direction.friend_move_token IN
    Some(FriendMoveTokenNew(tc.mutual_credit.local_public_key,
           UnsignedMoveToken(operations,
               friend_move_token.new_token,
               friend_move_token.inconsistency_counter,
               WrappingAdd1(friend_move_token.move_token_counter),
               tc.mutual_credit.balance.balance,
               tc.mutual_credit.balance.local_pending_debt,
               tc.mutual_credit.balance.remote_pending_debt,
               rand_nonce)))

\* Variant of create_friend_move_token that repeats the counter of the last
\* received move token.
CreateFriendMoveTokenSameCounter(tc, operations, rand_nonce) ==
    IF tc.direction.tag = "Outgoing"
    THEN None
    ELSE LET friend_move_token == tc.direction.friend_move_token IN
         Some(FriendMoveTokenNew(tc.mutual_credit.local_public_key,
                UnsignedMoveToken(operations,
                    friend_move_token.new_token,
                    friend_move_token.inconsistency_counter,
                    friend_move_token.move_token_counter,
                    tc.mutual_credit.balance.balance,
                    tc.mutual_credit.balance.local_pending_debt,
                    tc.mutual_credit.balance.remote_pending_debt,
                    rand_nonce)))

\* Variant of create_friend_move_token that chains onto the old token of
\* the last received move token, not onto its new token.
CreateFriendMoveTokenStaleToken(tc, operations, rand_nonce) ==
    IF tc.direction.tag = "Outgoing"
    THEN None
    ELSE LET friend_move_token == tc.direction.friend_move_token IN
         Some(FriendMoveTokenNew(tc.mutual_credit.local_public_key,
                UnsignedMoveToken(operations,
                    friend_move_token.old_token,
                    friend_move_token.inconsistency_counter,
                    WrappingAdd1(friend_move_token.move_token_counter),
                    tc.mutual_credit.balance.balance,
                    tc.mutual_credit.balance.local_pending_debt,
                    tc.mutual_credit.balance.remote_pending_debt,
                    rand_nonce)))

\* create_friend_move_token: None in direction Outgoing, without asking the
\* oracle; otherwise the signed successor of the last received move token.
CreateFriendMoveToken(tc, operations, rand_nonce) ==
    IF tc.direction.tag = "Outgoing"
    THEN None
    ELSE LET friend_move_token == tc.direction.friend_move_token IN
         Some(FriendMoveTokenNew(tc.mutual_credit.local_public_key,
                UnsignedMoveToken(operations,
                    friend_move_token.new_token,
                    friend_move_token.inconsistency_counter,
                    WrappingAdd1(friend_move_token.move_token_counter),
                    tc.mutual_credit.balance.balance,
                    tc.mutual_credit.balance.local_pending_debt,
                    tc.mutual_credit.balance.remote_pending_debt,
                    rand_nonce)))

TcMcMutation(mc_mutation) == [type |-> "McMutation", mc_mutation |-> mc_mutation]
TcSetDirection(dir, m) == [type |-> "SetDirection", dir |-> dir, friend_move_token |-> m]
TcSetTokenWanted == [type |-> "SetTokenWanted"]

\* Variant of mutate in which SetDirection::Outgoing leaves the direction as
\* it is.
MutateKeepsDirection(tc, d_mutation) ==
    CASE d_mutation.type = "McMutation" ->
            [tc EXCEPT !.mutual_credit = McMutate(@, d_mutation.mc_mutation)]
      [] d_mutation.type = "SetDirection" ->
            IF d_mutation.dir = "Incoming"
            THEN [tc EXCEPT !.direction = DirIncoming(d_mutation.friend_move_token)]
            ELSE tc
      [] d_mutation.type = "SetTokenWanted" ->
            [tc EXCEPT !.direction.token_wanted = TRUE]

\* TokenChannel::mutate
\* Variant of mutate whose SetDirection::Outgoing does not keep the
\* message that was incoming.
MutateDropsPrevIncoming(tc, d_mutation) ==
    CASE d_mutation.type = "McMutation" ->
            [tc EXCEPT !.mutual_credit = McMutate(@, d_mutation.mc_mutation)]
      [] d_mutation.type = "SetDirection" ->
            IF d_mutation.dir = "Incoming"
            THEN [tc EXCEPT !.direction = DirIncoming(d_mutation.friend_move_token)]
            ELSE [tc EXCEPT !.direction =
                    DirOutgoing(d_mutation.friend_move_token, FALSE, None)]
      [] d_mutation.type = "SetTokenWanted" ->
            [tc EXCEPT !.direction.token_wanted = TRUE]

Mutate(tc, d_mutation) ==
    CASE d_mutation.type = "McMutation" ->
            [tc EXCEPT !.mutual_credit = McMutate(@, d_mutation.mc_mutation)]
      [] d_mutation.type = "SetDirection" ->
            IF d_mutation.dir = "Incoming"
            THEN [tc EXCEPT !.direction = DirIncoming(d_mutation.friend_move_token)]
            ELSE [tc EXCEPT !.direction =
                    DirOutgoing(d_mutation.friend_move_token, FALSE,
                                GetLastIncomingMoveToken(tc))]
      [] d_mutation.type = "SetTokenWanted" ->
            [tc EXCEPT !.direction.token_wanted = TRUE]

RECURSIVE MutateAll(_, _)
MutateAll(tc, mutations) ==
    IF mutations = <<>> THEN tc
    ELSE MutateAll(Mutate(tc, Head(mutations)), Tail(mutations))

WrapMcMutations(mc_mutations) ==
    [i \in 1 .. Len(mc_mutations) |-> TcMcMutation(mc_mutations[i])]

RecvOk(result, mutations, retransmit) ==
    [ ok |-> TRUE, result |-> result, error |-> "", mutations |-> mutations,
      retransmit |-> retransmit ]
RecvErr(result, error) ==
    [ ok |-> FALSE, result |-> result, error |-> error, mutations |-> <<>>,
      retransmit |-> None ]

\* Variant of outgoing_to_incoming without the stated-balance check.
OutgoingToIncomingUnchecked(tc, old_move_token, new_move_token) ==
    IF new_move_token.inconsistency_counter # old_move_token.inconsistency_counter
    THEN RecvErr("InvalidInconsistencyCounter", "")
    ELSE IF CheckedAdd1(old_move_token.move_token_counter) = None
    THEN RecvErr("MoveTokenCounterOverflow", "")
    ELSE IF new_move_token.move_token_counter
                # CheckedAdd1(old_move_token.move_token_counter)[1]
    THEN RecvErr("InvalidMoveTokenCounter", "")
    ELSE LET res == ProcessOperationsList(tc.mutual_credit, new_move_token.operations)
         IN  IF res.ok
             THEN RecvOk("Received",
                         Append(WrapMcMutations(res.mc_mutations),
                                TcSetDirection("Incoming", new_move_token)),
                         None)
             ELSE RecvErr("InvalidTransaction", res.error)

\* Variant of outgoing_to_incoming that compares the move-token counters
\* before the inconsistency counters.
OutgoingToIncomingCounterFirst(tc, old_move_token, new_move_token) ==
    IF CheckedAdd1(old_move_token.move_token_counter) = None
    THEN RecvErr("MoveTokenCounterOverflow", "")
    ELSE IF new_move_token.move_token_counter
                # CheckedAdd1(old_move_token.move_token_counter)[1]
    THEN RecvErr("InvalidMoveTokenCounter", "")
    ELSE IF new_move_token.inconsistency_counter # old_move_token.inconsistency_counter
    THEN RecvErr("InvalidInconsistencyCounter", "")
    ELSE LET res == ProcessOperationsList(tc.mutual_credit, new_move_token.operations)
             b == res.mutual_credit.balance
         IN  IF \/ b.balance # new_move_token.balance
                \/ b.local_pending_debt # new_move_token.local_pending_debt
                \/ b.remote_pending_debt # new_move_token.remote_pending_debt
             THEN RecvErr("InvalidStatedBalance", "")
             ELSE IF res.ok
             THEN RecvOk("Received",
                         Append(WrapMcMutations(res.mc_mutations),
                                TcSetDirection("Incoming", new_move_token)),
                         None)
             ELSE RecvErr("InvalidTransaction", res.error)

\* Variant of outgoing_to_incoming that expects the wrapped successor of the
\* current move-token counter.
OutgoingToIncomingWrapping(tc, old_move_token, new_move_token) ==
    IF new_move_token.inconsistency_counter # old_move_token.inconsistency_counter
    THEN RecvErr("InvalidInconsistencyCounter", "")
    ELSE IF new_move_token.move_token_counter
                # WrappingAdd1(old_move_token.move_token_counter)
    THEN RecvErr("InvalidMoveTokenCounter", "")
    ELSE LET res == ProcessOperationsList(tc.mutual_credit, new_move_token.operations)
             b == res.mutual_credit.balance
         IN  IF \/ b.balance # new_move_token.balance
                \/ b.local_pending_debt # new_move_token.local_pending_debt
                \/ b.remote_pending_debt # new_move_token.remote_pending_debt
             THEN RecvErr("InvalidStatedBalance", "")
             ELSE IF res.ok
             THEN RecvOk("Received",
                         Append(WrapMcMutations(res.mc_mutations),
                                TcSetDirection("Incoming", new_move_token)),
                         None)
             ELSE RecvErr("InvalidTransaction", res.error)

\* outgoing_to_incoming
OutgoingToIncoming(tc, old_move_token, new_move_token) ==
    IF new_move_token.inconsistency_counter # old_move_token.inconsistency_counter
    THEN RecvErr("InvalidInconsistencyCounter", "")
    ELSE IF CheckedAdd1(old_move_token.move_token_counter) = None
    THEN RecvErr("MoveTokenCounterOverflow", "")
    ELSE IF new_move_token.move_token_counter
                # CheckedAdd1(old_move_token.move_token_counter)[1]
    THEN RecvErr("InvalidMoveTokenCounter", "")
    ELSE LET res == ProcessOperationsList(tc.mutual_credit, new_move_token.operations)
             b == res.mutual_credit.balance
         IN  IF \/ b.balance # new_move_token.balance
                \/ b.local_pending_debt # new_move_token.local_pending_debt
                \/ b.remote_pending_debt # new_move_token.remote_pending_debt
             THEN RecvErr("InvalidStatedBalance", "")
             ELSE IF res.ok
             THEN RecvOk("Received",
                         Append(WrapMcMutations(res.mc_mutations),
                                TcSetDirection("Incoming", new_move_token)),
                         None)
             ELSE RecvErr("InvalidTransaction", res.error)

\* Variant of simulate_receive_move_token that asks for the token when it
\* answers RetransmitOutgoing.
SimulateReceiveMoveTokenWanting(tc, new_move_token) ==
    IF tc.direction.tag = "Incoming"
    THEN IF tc.direction.friend_move_token = new_move_token
         THEN RecvOk("Duplicate", <<>>, None)
         ELSE RecvErr("ChainInconsistency", "")
    ELSE IF ~MoveTokenVerify(new_move_token, tc.mutual_credit.remote_public_key)
    THEN RecvErr("InvalidSignature", "")
    ELSE LET friend_move_token == tc.direction.friend_move_token IN
         IF new_move_token.old_token = GetCurMoveToken(tc).new_token
         THEN OutgoingToIncoming(tc, friend_move_token, new_move_token)
         ELSE IF friend_move_token.old_token = new_move_token.new_token
         THEN RecvOk("RetransmitOutgoing", <<TcSetTokenWanted>>,
                     Some(friend_move_token))
         ELSE RecvErr("ChainInconsistency", "")

\* Variant of simulate_receive_move_token that verifies the signature only
\* of a message that chains onto the current one.
SimulateReceiveMoveTokenChainFirst(tc, new_move_token) ==
    IF tc.direction.tag = "Incoming"
    THEN IF tc.direction.friend_move_token = new_move_token
         THEN RecvOk("Duplicate", <<>>, None)
         ELSE RecvErr("ChainInconsistency", "")
    ELSE LET friend_move_token == tc.direction.friend_move_token IN
         IF new_move_token.old_token = GetCurMoveToken(tc).new_token
         THEN IF ~MoveTokenVerify(new_move_token, tc.mutual_credit.remote_public_key)
              THEN RecvErr("InvalidSignature", "")
              ELSE OutgoingToIncoming(tc, friend_move_token, new_move_token)
         ELSE IF friend_move_token.old_token = new_move_token.new_token
         THEN RecvOk("RetransmitOutgoing", <<>>, Some(friend_move_token))
         ELSE RecvErr("ChainInconsistency", "")

\* Variant of simulate_receive_move_token that, in direction Incoming, does
\* not compare the signatures of the two messages.
SimulateReceiveMoveTokenSameFields(tc, new_move_token) ==
    IF tc.direction.tag = "Incoming"
    THEN IF [tc.direction.friend_move_token EXCEPT !.new_token = ZeroSignature]
                = [new_move_token EXCEPT !.new_token = ZeroSignature]
         THEN RecvOk("Duplicate", <<>>, None)
         ELSE RecvErr("ChainInconsistency", "")
    ELSE IF ~MoveTokenVerify(new_move_token, tc.mutual_credit.remote_public_key)
    THEN RecvErr("InvalidSignature", "")
    ELSE LET friend_move_token == tc.direction.friend_move_token IN
         IF new_move_token.old_token = GetCurMoveToken(tc).new_token
         THEN OutgoingToIncoming(tc, friend_move_token, new_move_token)
         ELSE IF friend_move_token.old_token = new_move_token.new_token
         THEN RecvOk("RetransmitOutgoing", <<>>, Some(friend_move_token))
         ELSE RecvErr("ChainInconsistency", "")

\* Variant of simulate_receive_move_token that never answers
\* RetransmitOutgoing.
SimulateReceiveMoveTokenNoRetransmit(tc, new_move_token) ==
    IF tc.direction.tag = "Incoming"
    THEN IF tc.direction.friend_move_token = new_move_token
         THEN RecvOk("Duplicate", <<>>, None)
         ELSE RecvErr("ChainInconsistency", "")
    ELSE IF ~MoveTokenVerify(new_move_token, tc.mutual_credit.remote_public_key)
    THEN RecvErr("InvalidSignature", "")
    ELSE LET friend_move_token == tc.direction.friend_move_token IN
         IF new_move_token.old_token = GetCurMoveToken(tc).new_token
         THEN OutgoingToIncoming(tc, friend_move_token, new_move_token)
         ELSE RecvErr("ChainInconsistency", "")

\* Variant of simulate_receive_move_token whose RetransmitOutgoing carries
\* the received message.
SimulateReceiveMoveTokenEcho(tc, new_move_token) ==
    IF tc.direction.tag = "Incoming"
    THEN IF tc.direction.friend_move_token = new_move_token
         THEN RecvOk("Duplicate", <<>>, None)
         ELSE RecvErr("ChainInconsistency", "")
    ELSE IF ~MoveTokenVerify(new_move_token, tc.mutual_credit.remote_public_key)
    THEN RecvErr("InvalidSignature", "")
    ELSE LET friend_move_token == tc.direction.friend_move_token IN
         IF new_move_token.old_token = GetCurMoveToken(tc).new_token
         THEN OutgoingToIncoming(tc, friend_move_token, new_move_token)
         ELSE IF friend_move_token.old_token = new_move_token.new_token
         THEN RecvOk("RetransmitOutgoing", <<>>, Some(new_move_token))
         ELSE RecvErr("ChainInconsistency", "")

\* Variant of simulate_receive_move_token that verifies the signature in
\* direction Incoming as well.
SimulateReceiveMoveTokenVerifyBoth(tc, new_move_token) ==
    IF ~MoveTokenVerify(new_move_token, tc.mutual_credit.remote_public_key)
    THEN RecvErr("InvalidSignature", "")
    ELSE IF tc.direction.tag = "Incoming"
    THEN IF tc.direction.friend_move_token = new_move_token
         THEN RecvOk("Duplicate", <<>>, None)
         ELSE RecvErr("ChainInconsistency", "")
    ELSE LET friend_move_token == tc.direction.friend_move_token IN
         IF new_move_token.old_token = GetCurMoveToken(tc).new_token
         THEN OutgoingToIncoming(tc, friend_move_token, new_move_token)
         ELSE IF friend_move_token.old_token = new_move_token.new_token
         THEN RecvOk("RetransmitOutgoing", <<>>, Some(friend_move_token))
         ELSE RecvErr("ChainInconsistency", "")

\* simulate_receive_move_token
SimulateReceiveMoveToken(tc, new_move_token) ==
    IF tc.direction.tag = "Incoming"
    THEN IF tc.direction.friend_move_token = new_move_token
         THEN RecvOk("Duplicate", <<>>, None)
         ELSE RecvErr("ChainInconsistency", "")
    ELSE IF ~MoveTokenVerify(new_move_token, tc.mutual_credit.remote_public_key)
    THEN RecvErr("InvalidSignature", "")
    ELSE LET friend_move_token == tc.direction.friend_move_token IN
         IF new_move_token.old_token = GetCurMoveToken(tc).new_token
         THEN OutgoingToIncoming(tc, friend_move_token, new_move_token)
         ELSE IF friend_move_token.old_token = new_move_token.new_token
         THEN RecvOk("RetransmitOutgoing", <<>>, Some(friend_move_token))
         ELSE RecvErr("ChainInconsistency", "")

\* begin_outgoing_move_token: None in direction Outgoing, otherwise an
\* OutgoingMc over a clone of the ledger.
BeginOutgoingMoveToken(tc) ==
    IF tc.direction.tag = "Outgoing" THEN None
    ELSE Some([mutual_credit |-> tc.mutual_credit, max_operations |-> MaxOperations])

GetOutgoingMoveToken(tc) ==
    IF tc.direction.tag = "Incoming" THEN None
    ELSE Some([friend_move_token |-> tc.direction.friend_move_token,
               token_wanted |-> tc.direction.token_wanted])

(***************************************************************************)
(* The two friends, the network between them and the caller that drives    *)
(* each channel.                                                           *)
(***************************************************************************)
VARIABLES
    keys,      \* keys[s]: the public key of side s
    origin,    \* how the pair of channels was built: "genesis" or "reset"
    chan,      \* chan[s]: the TokenChannel of side s towards its peer
    pc,        \* pc[s]: "idle", or "signing" while a batch awaits its signature
    draft,     \* draft[s]: the operations of the batch being signed
    net,       \* net[s]: move tokens sent to side s (never forgotten: they may
               \* be delivered late, more than once, or never)
    requested, \* number of signatures requested from the identity oracles
    last       \* the last call made and what it returned

vars == <<keys, origin, chan, pc, draft, net, requested, last>>

FreshNonce == 0

\* Batches a caller may try to queue: the empty batch, configuration,
\* a request, a response, and one list that is too long for a batch.
OperationLists ==
    { <<>>,
      <<OpEnableRequests>>,
      <<OpSetRemoteMaxDebt(1), OpEnableRequests>>,
      <<OpRequestSendFunds(1, 1)>>,
      <<OpResponseSendFunds(1)>>,
      [i \in 1 .. MaxOperations + 1 |-> OpEnableRequests] }

Call(op, side, result, error, opt_move_token, mutations, retransmit) ==
    [ op |-> op, side |-> side, result |-> result, error |-> error,
      opt_move_token |-> opt_move_token, mutations |-> mutations,
      retransmit |-> retransmit ]

ResetBuffer(new_token, balance_for_reset) ==
    [prefix |-> "RESET", new_token |-> new_token, balance_for_reset |-> balance_for_reset]

ResetBalances == {0, 1}

InitCommon ==
    /\ pc = [s \in Sides |-> "idle"]
    /\ draft = [s \in Sides |-> <<>>]
    /\ net = [s \in Sides |-> {}]
    /\ requested = 0
    /\ last = Call("new", 0, "", "", None, <<>>, None)

\* Both sides run TokenChannel::new on the pair of keys.
InitGenesis ==
    /\ \E a \in PublicKeys, b \in PublicKeys : a < b /\ keys = <<a, b>>
    /\ origin = "genesis"
    /\ chan = [s \in Sides |-> TokenChannelNew(keys[s], keys[Peer(s)])]
    /\ InitCommon

\* The pair after a reset handshake: side y proposed reset terms, side x
\* accepted them with a signed reset move token and y received it.
InitReset ==
    /\ \E a \in PublicKeys, b \in PublicKeys : a < b /\ keys = <<a, b>>
    /\ origin = "reset"
    /\ \E x \in Sides, balance_for_reset \in ResetBalances :
         LET y == Peer(x)
             reset_token == RequestSignature(keys[y],
                                ResetBuffer(ZeroSignature, balance_for_reset))
             reset_move_token == FriendMoveTokenNew(keys[x],
                    UnsignedMoveToken(<<>>, reset_token, 1, 0,
                                      0 - balance_for_reset, 0, 0, FreshNonce))
         IN  chan = [s \in Sides |->
                       IF s = x
                       THEN NewFromLocalReset(keys[x], keys[y], reset_move_token,
                                              0 - balance_for_reset, None)
                       ELSE NewFromRemoteReset(keys[y], keys[x], reset_move_token,
                                               balance_for_reset)]
    /\ InitCommon

Init == InitGenesis \/ InitReset

\* A call that returned without changing anything (None, an error, a
\* duplicate) is recorded in last, and the run is not followed past it: the
\* state it was made in is explored on its own. Neither is a run followed
\* past a message that the peer did not build.
Probe ==
    \/ last.op = "begin" /\ last.result \in {"None", "QueueError"}
    \/ last.op = "create" /\ last.result = "None"
    \/ last.op = "receive" /\ last.result \notin {"Received", "RetransmitOutgoing"}
    \/ last.op = "inject"

\* The last call changed a channel. What a channel answers to a message
\* depends on the channel alone, so messages the peer did not build are
\* presented right after a channel has changed (or has been created).
ChannelChanged ==
    \/ last.op = "new"
    \/ last.op \in {"begin", "create"} /\ last.result = "Some"
                                      /\ last.mutations # <<>>
    \/ last.op = "receive" /\ last.result = "Received"

\* prepare_send: begin_outgoing_move_token, queue the operations, done(), and
\* apply the batch's ledger mutations; the batch then awaits its signature.
PrepareSend(s, operations) ==
    /\ ~Probe
    /\ pc[s] = "idle"
    /\ LET begin == BeginOutgoingMoveToken(chan[s]) IN
       IF begin = None
       THEN /\ last' = Call("begin", s, "None", "", None, <<>>, None)
            /\ UNCHANGED <<chan, pc, draft>>
       ELSE LET q == QueueOperations(begin[1].mutual_credit, operations,
                                     begin[1].max_operations) IN
            IF ~q.ok
            THEN /\ last' = Call("begin", s, "QueueError", q.error, None, <<>>, None)
                 /\ UNCHANGED <<chan, pc, draft>>
            ELSE /\ chan' = [chan EXCEPT ![s] =
                               MutateAll(@, WrapMcMutations(q.mc_mutations))]
                 /\ pc' = [pc EXCEPT ![s] = "signing"]
                 /\ draft' = [draft EXCEPT ![s] = operations]
                 /\ last' = Call("begin", s, "Some", "", None,
                                 WrapMcMutations(q.mc_mutations), None)
    /\ UNCHANGED <<keys, origin, net, requested>>

\* send_friend_move_token: create_friend_move_token signs the batch, then
\* SetDirection::Outgoing is applied and the message is handed to the network.
SignAndSend(s) ==
    /\ ~Probe
    /\ pc[s] = "signing"
    /\ requested < MaxSignatures
    /\ LET r == CreateFriendMoveToken(chan[s], draft[s], FreshNonce) IN
       /\ r # None
       /\ chan' = [chan EXCEPT ![s] = Mutate(@, TcSetDirection("Outgoing", r[1]))]
       /\ net' = [net EXCEPT ![Peer(s)] = @ \cup {r[1]}]
       /\ last' = Call("create", s, "Some", "", r,
                       <<TcSetDirection("Outgoing", r[1])>>, None)
    /\ pc' = [pc EXCEPT ![s] = "idle"]
    /\ draft' = [draft EXCEPT ![s] = <<>>]
    /\ requested' = requested + 1
    /\ UNCHANGED <<keys, origin>>

\* A caller that calls create_friend_move_token with an empty batch and drops
\* the result.
CreateDropped(s) ==
    /\ ~Probe
    /\ pc[s] = "idle"
    /\ LET r == CreateFriendMoveToken(chan[s], <<>>, FreshNonce) IN
       /\ r # None => requested < MaxSignatures
       /\ requested' = IF r # None THEN requested + 1 ELSE requested
       /\ last' = Call("create", s, IF r = None THEN "None" ELSE "Dropped",
                       "", r, <<>>, None)
    /\ UNCHANGED <<keys, origin, chan, pc, draft, net>>

\* The caller's handling of one incoming move token: it applies the mutations
\* of a Received result in order and re-sends on RetransmitOutgoing.
HandleMoveToken(s, m, op) ==
    LET r == SimulateReceiveMoveToken(chan[s], m) IN
    /\ chan' = [chan EXCEPT ![s] = MutateAll(@, r.mutations)]
    /\ net' = IF r.retransmit = None THEN net
              ELSE [net EXCEPT ![Peer(s)] = @ \cup {r.retransmit[1]}]
    /\ last' = Call(op, s, r.result, r.error, Some(m), r.mutations, r.retransmit)

\* Delivery of a message the peer sent.
Receive(s) ==
    /\ ~Probe
    /\ \E m \in net[s] : HandleMoveToken(s, m, "receive")
    /\ UNCHANGED <<keys, origin, pc, draft, requested>>

\* transmit_outgoing: the side in direction Outgoing (re-)sends its message.
TransmitOutgoing(s) ==
    /\ ~Probe
    /\ GetOutgoingMoveToken(chan[s]) # None
    /\ LET m == GetOutgoingMoveToken(chan[s])[1].friend_move_token IN
       /\ m \notin net[Peer(s)]
       /\ net' = [net EXCEPT ![Peer(s)] = @ \cup {m}]
       /\ last' = Call("transmit", s, "", "", Some(m), <<>>, None)
    /\ UNCHANGED <<keys, origin, chan, pc, draft, requested>>

Next ==
    \/ \E s \in Sides, operations \in OperationLists : PrepareSend(s, operations)
    \/ \E s \in Sides : SignAndSend(s)
    \/ \E s \in Sides : CreateDropped(s)
    \/ \E s \in Sides : Receive(s)
    \/ \E s \in Sides : TransmitOutgoing(s)

\* Two honest sides over a network that loses, delays and repeats messages.
Spec == Init /\ [][Next]_vars

\* Messages a misbehaving peer (one that signs what the protocol would not)
\* or a tampering network may present to side s: every combination of a
\* chaining or unrelated old_token and right and wrong counters; for a side
\* in direction Outgoing, which inspects them, also an acceptable or a
\* failing batch and a stated balance that matches the replayed ledger or
\* not; for a side in direction Incoming also the fields of the message it
\* received last.
InjectedOperations == {<<>>, <<OpEnableRequests>>, <<OpResponseSendFunds(1)>>}

InjectedFields(s) ==
    LET cur == GetCurMoveToken(chan[s])
        replayed(operations) ==
            ProcessOperationsList(chan[s].mutual_credit, operations)
                .mutual_credit.balance
    IN  { UnsignedMoveToken(f.operations, f.old_token, f.ic, f.mtc,
              replayed(f.operations).balance + f.db,
              replayed(f.operations).local_pending_debt,
              replayed(f.operations).remote_pending_debt,
              FreshNonce) :
            f \in [ operations : IF IsOutgoing(chan[s]) THEN InjectedOperations
                                 ELSE {<<>>},
                    old_token : {cur.new_token, ZeroSignature},
                    ic : {cur.inconsistency_counter, cur.inconsistency_counter + 1},
                    mtc : {cur.move_token_counter, WrappingAdd1(cur.move_token_counter)},
                    db : IF IsOutgoing(chan[s]) THEN {0, 1} ELSE {0} ] }
        \cup (IF IsOutgoing(chan[s]) THEN {}
              ELSE {[cur EXCEPT !.new_token = ZeroSignature]})

ReceiveInjected(s) ==
    /\ ~Probe
    /\ ChannelChanged
    /\ \E u \in InjectedFields(s) :
         \/ \* signed with the peer's own key
            HandleMoveToken(s, FriendMoveTokenNew(keys[Peer(s)], u), "inject")
         \/ \* signed with a key that is not the peer's
            HandleMoveToken(s, FriendMoveTokenNew(keys[s], u), "inject")
         \/ \* not signed at all
            HandleMoveToken(s, u, "inject")
    /\ UNCHANGED <<keys, origin, pc, draft, requested>>

NextAdv ==
    \/ Next
    \/ \E s \in Sides : ReceiveInjected(s)

\* The same two sides, where the peer or the network may also misbehave.
SpecAdv == Init /\ [][NextAdv]_vars

(***************************************************************************)
(* The ledger on its own: the constructor, the two operation processors    *)
(* and the mutations, applied to the ledger of one side.                   *)
(***************************************************************************)
LedgerSides == {1}

\* Initial balances of a ledger: 0 for a fresh channel, any other value
\* after a reset; small values and the extremes (the negation in
\* TcBalance::new overflows for the least value, which is left out).
LedgerBalances == {I128Min + 1, 0 - 1, 0, 1, I128Max}

LedgerRequestIds == {1, 2}
LedgerPayments == {1, 2}

\* Operations handed to the processors.
LedgerOperations ==
    {OpEnableRequests, OpDisableRequests}
        \cup {OpSetRemoteMaxDebt(v) : v \in {0, MAX_FUNDER_DEBT, MAX_FUNDER_DEBT + 1}}
        \cup {OpRequestSendFunds(id, v) : id \in LedgerRequestIds, v \in LedgerPayments}
        \cup {OpResponseSendFunds(id) : id \in LedgerRequestIds}
        \cup {OpFailureSendFunds(id) : id \in LedgerRequestIds}

\* Mutations applied directly: every kind, with small, large and extreme
\* values.
LedgerMutations ==
    {[type |-> t, status |-> v] :
        t \in {"SetLocalRequestsStatus", "SetRemoteRequestsStatus"},
        v \in {"Open", "Closed"}}
        \cup {[type |-> t, value |-> v] :
                t \in {"SetLocalMaxDebt", "SetRemoteMaxDebt",
                       "SetLocalPendingDebt", "SetRemotePendingDebt"},
                v \in {1, U128Max}}
        \cup {[type |-> "SetBalance", value |-> v] : v \in {I128Min, I128Max}}
        \cup {[type |-> t, request |-> [request_id |-> id, dest_payment |-> v]] :
                t \in {"InsertLocalPendingRequest", "InsertRemotePendingRequest"},
                id \in LedgerRequestIds, v \in LedgerPayments}
        \cup {[type |-> t, request_id |-> id] :
                t \in {"RemoveLocalPendingRequest", "RemoveRemotePendingRequest"},
                id \in LedgerRequestIds}

\* A ledger built by MutualCredit::new inside a channel that exchanges
\* nothing (the ledger only stores the keys: one pair of them is enough).
InitLedger ==
    /\ \E a \in PublicKeys, b \in PublicKeys :
         /\ a < b
         /\ \A c \in PublicKeys \ {a} : b <= c
         /\ keys = <<a, b>>
    /\ origin = "ledger"
    /\ \E balance \in LedgerBalances :
         chan = [s \in Sides |->
                   [TokenChannelNew(keys[s], keys[Peer(s)]) EXCEPT
                      !.mutual_credit =
                          MutualCreditNew(keys[s], keys[Peer(s)],
                                          IF s \in LedgerSides THEN balance ELSE 0)]]
    /\ InitCommon

\* A rejected operation left the ledger as it was, and a mutation applied
\* directly is looked at on its own: neither is followed.
LedgerProbe ==
    \/ last.op \in {"queue", "process"} /\ last.result = "Err"
    \/ last.op \in {"mutate", "trans_remove", "get_reset_terms"}

\* OutgoingMc::queue_operation with one operation, and its mutations applied
\* (the call record keeps the outcome only).
LedgerQueue(s, op) ==
    /\ origin = "ledger"
    /\ ~LedgerProbe
    /\ LET r == QueueOperation(chan[s].mutual_credit, op) IN
       /\ chan' = [chan EXCEPT ![s] = MutateAll(@, WrapMcMutations(r.mc_mutations))]
       /\ last' = Call("queue", s, IF r.ok THEN "Ok" ELSE "Err", r.error, None,
                       <<>>, None)
    /\ UNCHANGED <<keys, origin, pc, draft, net, requested>>

\* process_operations_list with one operation, and its mutations applied.
LedgerProcess(s, op) ==
    /\ origin = "ledger"
    /\ ~LedgerProbe
    /\ LET r == ProcessOperationsList(chan[s].mutual_credit, <<op>>) IN
       /\ chan' = [chan EXCEPT ![s] = MutateAll(@, WrapMcMutations(r.mc_mutations))]
       /\ last' = Call("process", s, IF r.ok THEN "Ok" ELSE "Err", r.error, None,
                       <<>>, None)
    /\ UNCHANGED <<keys, origin, pc, draft, net, requested>>

NextLedger ==
    \/ \E s \in LedgerSides, op \in LedgerOperations : LedgerQueue(s, op)
    \/ \E s \in LedgerSides, op \in LedgerOperations : LedgerProcess(s, op)

\* One ledger, from its constructor, under every sequence of operations the
\* processors accept or reject.
SpecLedger == InitLedger /\ [][NextLedger]_vars

\* TokenChannel::mutate (ledger) with one mutation of any kind and value, on
\* a ledger the processors have reached; the run is not followed past it.
LedgerMutate(s, m) ==
    /\ origin = "ledger"
    /\ ~LedgerProbe
    /\ chan' = [chan EXCEPT ![s] = Mutate(@, TcMcMutation(m))]
    /\ last' = Call("mutate", s, "", "", None, <<TcMcMutation(m)>>, None)
    /\ UNCHANGED <<keys, origin, pc, draft, net, requested>>

\* TransHashMapMut::remove: the entry under the key, if any, is removed and
\* returned.
TransHashMapRemove(hmap, uid) ==
    [ hmap |-> MapRemove(hmap, uid),
      removed |-> IF MapContains(hmap, uid) THEN Some(MapGet(hmap, uid)) ELSE None ]

\* TransPendingRequests::remove_local_pending_request on the locally opened
\* pending requests; the call record keeps the removal and whether an entry
\* came back.
TransRemoveLocalPendingRequest(s, uid) ==
    /\ origin = "ledger"
    /\ ~LedgerProbe
    /\ LET r == TransHashMapRemove(chan[s].mutual_credit.pending_local_requests, uid) IN
       /\ chan' = [chan EXCEPT ![s].mutual_credit.pending_local_requests = r.hmap]
       /\ last' = Call("trans_remove", s, IF r.removed = None THEN "None" ELSE "Some",
                       "", None,
                       <<TcMcMutation([type |-> "RemoveLocalPendingRequest",
                                       request_id |-> uid])>>, None)
    /\ UNCHANGED <<keys, origin, pc, draft, net, requested>>

NextMutation ==
    \/ NextLedger
    \/ \E s \in LedgerSides, m \in LedgerMutations : LedgerMutate(s, m)
    \/ \E s \in LedgerSides, uid \in LedgerRequestIds :
            TransRemoveLocalPendingRequest(s, uid)

SpecMutation == InitLedger /\ [][NextMutation]_vars

(***************************************************************************)
(* Reset: get_reset_terms and the two constructors that rebuild a channel  *)
(* from the terms.                                                         *)
(***************************************************************************)
\* Variant of balance_for_reset that wraps around the signed width.
BalanceForResetWrapping(mc) ==
    LET sum == mc.balance.balance + mc.balance.remote_pending_debt IN
    Some(((sum - I128Min) % U128Modulus) + I128Min)

\* TokenChannel::balance_for_reset: checked_add_unsigned, and expect() on
\* its result. None stands for the panic.
BalanceForReset(mc) ==
    LET sum == mc.balance.balance + mc.balance.remote_pending_debt IN
    IF sum > I128Max THEN None ELSE Some(sum)

CalcChannelResetToken(public_key, new_token, balance_for_reset) ==
    RequestSignature(public_key, ResetBuffer(new_token, balance_for_reset))

GetMoveTokenCounter(tc) == GetCurMoveToken(tc).move_token_counter

GetInconsistencyCounter(tc) == GetCurMoveToken(tc).inconsistency_counter

\* u64::wrapping_add(1) on the inconsistency counter.
InconsistencyWrappingAdd1(counter) == (counter + 1) % (InconsistencyCounterMax + 1)

\* Variant of get_reset_terms that signs and proposes the balance alone.
GetResetTermsBalanceOnly(tc, public_key) ==
    IF BalanceForReset(tc.mutual_credit) = None THEN None
    ELSE Some([ reset_token |->
                    CalcChannelResetToken(public_key, GetCurMoveToken(tc).new_token,
                                          tc.mutual_credit.balance.balance),
                inconsistency_counter |->
                    InconsistencyWrappingAdd1(GetInconsistencyCounter(tc)),
                balance_for_reset |-> tc.mutual_credit.balance.balance ])

\* TokenChannel::get_reset_terms, signing with the key of the channel's
\* owner. None: the call panicked in balance_for_reset.
GetResetTerms(tc, public_key) ==
    LET balance_for_reset == BalanceForReset(tc.mutual_credit) IN
    IF balance_for_reset = None THEN None
    ELSE Some([ reset_token |->
                    CalcChannelResetToken(public_key, GetCurMoveToken(tc).new_token,
                                          balance_for_reset[1]),
                inconsistency_counter |->
                    InconsistencyWrappingAdd1(GetInconsistencyCounter(tc)),
                balance_for_reset |-> balance_for_reset[1] ])

\* Operations applied to a ledger between resets.
ResetOperations ==
    { OpEnableRequests, OpSetRemoteMaxDebt(MAX_FUNDER_DEBT),
      OpRequestSendFunds(1, 1), OpRequestSendFunds(2, 2), OpResponseSendFunds(1) }

\* Mutations that take the balance and the remote pending debt to values the
\* processors do not reach.
ResetMutations ==
    {[type |-> "SetBalance", value |-> I128Max]}
        \cup {[type |-> "SetRemotePendingDebt", value |-> v] : v \in {1, U128Max}}

\* Resets are counted by the signatures they take (two each); as many are
\* followed as it takes the inconsistency counter to wrap.
MaxResetSignatures == 2 * (InconsistencyCounterMax + 1)

\* A call of get_reset_terms is looked at on its own, like a rejected
\* operation.
ResetProbe ==
    \/ last.op \in {"queue", "process"} /\ last.result = "Err"
    \/ last.op \in {"trans_remove", "get_reset_terms"}

\* get_reset_terms on the channel of side s: the terms, or a panic.
RequestResetTerms(s) ==
    /\ origin = "ledger"
    /\ ~ResetProbe
    /\ LET r == GetResetTerms(chan[s], keys[s]) IN
       last' = Call("get_reset_terms", s,
                    IF r = None THEN "Panic" ELSE "ResetTerms",
                    IF r = None THEN "Overflow when calculating balance_for_reset"
                    ELSE "",
                    None, <<>>, None) @@ [reset_terms |-> r]
    /\ requested' = requested + (IF GetResetTerms(chan[s], keys[s]) = None THEN 0 ELSE 1)
    /\ UNCHANGED <<keys, origin, chan, pc, draft, net>>

\* The reset handshake: side y proposes its reset terms, its peer x accepts
\* them with a signed reset move token and rebuilds its channel with
\* new_from_local_reset, y receives the token and rebuilds its channel with
\* new_from_remote_reset. The call record keeps the pair of channels that
\* was replaced.
ResetChannel(y) ==
    /\ origin = "ledger"
    /\ ~LedgerProbe
    /\ requested + 2 <= MaxResetSignatures
    /\ LET x == Peer(y)
           r == GetResetTerms(chan[y], keys[y])
       IN  /\ r # None
           /\ r[1].balance_for_reset > I128Min
           /\ LET terms == r[1]
                  reset_move_token ==
                      FriendMoveTokenNew(keys[x],
                          UnsignedMoveToken(<<>>, terms.reset_token,
                                            terms.inconsistency_counter, 0,
                                            0 - terms.balance_for_reset, 0, 0,
                                            FreshNonce))
              IN  /\ chan' = [s \in Sides |->
                                IF s = x
                                THEN NewFromLocalReset(keys[x], keys[y], reset_move_token,
                                                       0 - terms.balance_for_reset,
                                                       GetLastIncomingMoveToken(chan[x]))
                                ELSE NewFromRemoteReset(keys[y], keys[x], reset_move_token,
                                                        terms.balance_for_reset)]
                  /\ last' = Call("reset", y, "Reset", "", Some(reset_move_token),
                                  <<>>, None) @@ [replaced |-> chan]
    /\ requested' = requested + 2
    /\ UNCHANGED <<keys, origin, pc, draft, net>>

\* The ledger is worked on before the first reset; the resets that follow
\* replace channels that were themselves rebuilt.
ResetLedgerQueue(s, op) == requested = 0 /\ LedgerQueue(s, op)
ResetLedgerProcess(s, op) == requested = 0 /\ LedgerProcess(s, op)

NextReset ==
    \/ \E s \in LedgerSides, op \in ResetOperations : ResetLedgerQueue(s, op)
    \/ \E s \in LedgerSides, op \in ResetOperations : ResetLedgerProcess(s, op)
    \/ \E s \in LedgerSides, m \in ResetMutations : LedgerMutate(s, m)
    \/ \E s \in Sides : RequestResetTerms(s)
    \/ \E y \in Sides : ResetChannel(y)

\* Ledgers under the operation processors, reset terms computed from them,
\* and channels rebuilt from the terms.
SpecReset == InitLedger /\ [][NextReset]_vars

(***************************************************************************)
(* Properties                                                              *)
(***************************************************************************)
Incoming(s) == chan[s].direction.tag = "Incoming"
Outgoing(s) == chan[s].direction.tag = "Outgoing"
IsReceive(call) == call.op \in {"receive", "inject"}
Triple(b) == <<b.balance, b.local_pending_debt, b.remote_pending_debt>>
StatedTriple(m) == <<m.balance, m.local_pending_debt, m.remote_pending_debt>>

\* C1: two channels that start from TokenChannel::new(A,B) and
\* TokenChannel::new(B,A) (or from a completed reset) and change state only
\* by applying the mutations of a Received result or SetDirection::Outgoing
\* of a message they built are never both in direction Incoming, whatever
\* the network loses, repeats or delivers late.
C1_NeverBothIncoming == ~(Incoming(1) /\ Incoming(2))

\* Reached: from genesis, a side has built and sent a message and its peer
\* has been handed it.
C1_Witness ==
    /\ origin = "genesis"
    /\ last.op = "receive"
    /\ MoveTokenVerify(last.opt_move_token[1], keys[Peer(last.side)])

\* C2: simulate_receive_move_token hands back mutations only in the Received
\* outcome: for Duplicate, RetransmitOutgoing and every error the channel
\* after the call equals the channel before it and no mutation is returned.
C2_OnlyReceivedMutates ==
    [][ (IsReceive(last') /\ last'.result # "Received")
          => (chan' = chan /\ last'.mutations = <<>>) ]_vars

\* Reached: a batch that fails in replay was rejected as InvalidTransaction.
C2_Witness ==
    /\ IsReceive(last)
    /\ last.result = "InvalidTransaction"
    /\ last.opt_move_token[1].operations # <<>>

\* C3: after the mutations of a Received result for a message m are applied
\* in order, the channel is in direction Incoming(m) and its ledger's
\* balance, local_pending_debt and remote_pending_debt are the three values
\* m states; SetDirection::Incoming(m) is the last mutation and the only
\* SetDirection of the list.
C3_ReceivedApplied ==
    (IsReceive(last) /\ last.result = "Received") =>
        LET m == last.opt_move_token[1]
            n == Len(last.mutations)
        IN  /\ chan[last.side].direction = DirIncoming(m)
            /\ Triple(chan[last.side].mutual_credit.balance) = StatedTriple(m)
            /\ n >= 1
            /\ last.mutations[n] = TcSetDirection("Incoming", m)
            /\ \A i \in 1 .. n - 1 : last.mutations[i].type # "SetDirection"

\* Reached: a received batch that changed the ledger.
C3_Witness ==
    /\ IsReceive(last)
    /\ last.result = "Received"
    /\ Len(last.mutations) >= 2

\* C4: of TokenChannel::new(A,B) and TokenChannel::new(B,A), for keys with
\* different hashes, exactly one starts Outgoing and the other Incoming; the
\* Outgoing one is the side whose own key has the smaller hash; both start
\* with balance 0, counters 0 and an empty operations list.
C4_GenesisDirections ==
    (origin = "genesis" /\ last.op = "new" /\ Sha(keys[1]) # Sha(keys[2])) =>
        /\ Outgoing(1) # Outgoing(2)
        /\ Incoming(1) # Incoming(2)
        /\ \A s \in Sides :
             /\ Outgoing(s) <=> Sha(keys[s]) < Sha(keys[Peer(s)])
             /\ chan[s].mutual_credit.balance.balance = 0
             /\ GetCurMoveToken(chan[s]).move_token_counter = 0
             /\ GetCurMoveToken(chan[s]).inconsistency_counter = 0
             /\ GetCurMoveToken(chan[s]).operations = <<>>

\* Reached: a fresh pair in which the side with the larger key has the
\* smaller hash.
C4_Witness ==
    /\ origin = "genesis"
    /\ last.op = "new"
    /\ \E s \in Sides : keys[s] > keys[Peer(s)] /\ Sha(keys[s]) < Sha(keys[Peer(s)])
                         /\ Outgoing(s)

\* C5: the genesis move tokens of TokenChannel::new(A,B) and
\* TokenChannel::new(B,A) are identical placeholders: same old_token, same
\* new_token, same rand_nonce.
C5_IdenticalGenesisTokens ==
    (origin = "genesis" /\ last.op = "new") =>
        LET m1 == GetCurMoveToken(chan[1])
            m2 == GetCurMoveToken(chan[2])
        IN  /\ m1.old_token = m2.old_token
            /\ m1.new_token = m2.new_token
            /\ m1.rand_nonce = m2.rand_nonce

\* The first move token of the side that starts Incoming towards side s.
FirstMoveToken(s) ==
    CreateFriendMoveToken(TokenChannelNew(keys[Peer(s)], keys[s]), <<>>, FreshNonce)

\* C6: from genesis, the first move token built by the side that starts
\* Incoming (empty operations list, correctly signed) is accepted with
\* Received by the side that starts Outgoing.
C6_FirstMoveTokenAccepted ==
    [][ \A s \in Sides :
          ( /\ origin = "genesis"
            /\ chan[s] = TokenChannelNew(keys[s], keys[Peer(s)])
            /\ Outgoing(s)
            /\ last'.op = "receive"
            /\ last'.side = s
            /\ last'.opt_move_token = FirstMoveToken(s) )
          => last'.result = "Received" ]_vars

\* The first signature ever requested from genesis, and the call it was
\* requested by.
FirstSigned ==
    /\ origin = "genesis"
    /\ last.op = "create"
    /\ last.result \in {"Some", "Dropped"}
    /\ requested = 1

C8_ProduceOnlyWhenIncoming ==
    [][ \A s \in Sides :
          (last'.op \in {"begin", "create"} /\ last'.side = s) =>
             /\ (last'.result # "None") <=> Incoming(s)
             /\ Outgoing(s) => (requested' = requested /\ chan' = chan) ]_vars

\* Reached: create_friend_move_token was called in direction Outgoing, after
\* the channel had already moved.
C8_Witness ==
    /\ last.op = "create"
    /\ last.result = "None"
    /\ requested >= 1

\* C9: in direction Outgoing a message whose signature does not verify
\* against the remote public key is rejected with InvalidSignature whatever
\* its other fields are, and the channel is unchanged.
C9_SignatureCheckedFirst ==
    [][ \A s \in Sides :
          ( /\ IsReceive(last')
            /\ last'.side = s
            /\ Outgoing(s)
            /\ ~MoveTokenVerify(last'.opt_move_token[1], keys[Peer(s)]) )
          => (last'.result = "InvalidSignature" /\ chan' = chan) ]_vars

\* Reached: a message that chains, carries the right counters, an acceptable
\* batch and the matching balances, but is signed with the wrong key, was
\* rejected.
C9_Witness ==
    /\ last.op = "inject"
    /\ last.result = "InvalidSignature"
    /\ LET m == last.opt_move_token[1]
           tc == chan[last.side]
           cur == GetCurMoveToken(tc)
       IN  /\ m.new_token.signer = keys[last.side]
           /\ m.old_token = cur.new_token
           /\ m.inconsistency_counter = cur.inconsistency_counter
           /\ m.move_token_counter = cur.move_token_counter + 1
           /\ m.operations = <<OpEnableRequests>>
           /\ OutgoingToIncoming(tc, cur, m).result = "Received"

\* A validly signed message delivered to side s, in direction Outgoing, that
\* chains onto the current outgoing message of s.
ChainedDelivery(s) ==
    /\ IsReceive(last')
    /\ last'.side = s
    /\ Outgoing(s)
    /\ MoveTokenVerify(last'.opt_move_token[1], keys[Peer(s)])
    /\ last'.opt_move_token[1].old_token = GetCurMoveToken(chan[s]).new_token

\* C10 (as stated): a validly signed chaining message is rejected with
\* InvalidInconsistencyCounter when its inconsistency_counter differs from
\* the current one, and otherwise with InvalidMoveTokenCounter when its
\* move_token_counter is not the current counter plus 1.
C10_CounterChecks ==
    [][ \A s \in Sides :
          ChainedDelivery(s) =>
            LET m == last'.opt_move_token[1]
                cur == GetCurMoveToken(chan[s])
            IN  /\ m.inconsistency_counter # cur.inconsistency_counter
                     => last'.result = "InvalidInconsistencyCounter"
                /\ ( /\ m.inconsistency_counter = cur.inconsistency_counter
                     /\ m.move_token_counter # cur.move_token_counter + 1 )
                     => last'.result = "InvalidMoveTokenCounter" ]_vars

\* C10 (amended): as stated, where the move-token-counter rejection is
\* InvalidMoveTokenCounter only while the current counter is below its
\* maximum; both rejections are given whatever the operations and the stated
\* balances of the message are, and leave the channel unchanged.
C10_CounterChecksBelowMax ==
    [][ \A s \in Sides :
          ChainedDelivery(s) =>
            LET m == last'.opt_move_token[1]
                cur == GetCurMoveToken(chan[s])
            IN  /\ m.inconsistency_counter # cur.inconsistency_counter
                     => (last'.result = "InvalidInconsistencyCounter" /\ chan' = chan)
                /\ ( /\ m.inconsistency_counter = cur.inconsistency_counter
                     /\ cur.move_token_counter < MoveTokenCounterMax
                     /\ m.move_token_counter # cur.move_token_counter + 1 )
                     => (last'.result = "InvalidMoveTokenCounter" /\ chan' = chan) ]_vars

\* Reached: a chaining message with a wrong inconsistency counter, a wrong
\* move-token counter and a batch that fails in replay was rejected for its
\* inconsistency counter.
C10_Witness ==
    /\ last.op = "inject"
    /\ last.result = "InvalidInconsistencyCounter"
    /\ LET m == last.opt_move_token[1]
           cur == GetCurMoveToken(chan[last.side])
       IN  /\ m.old_token = cur.new_token
           /\ m.move_token_counter # cur.move_token_counter + 1
           /\ m.operations = <<OpResponseSendFunds(1)>>
           /\ ~ProcessOperationsList(chan[last.side].mutual_credit, m.operations).ok

\* C11: in direction Outgoing with a current message that carries the
\* maximum move-token counter, every validly signed message that chains onto
\* it with an equal inconsistency counter is rejected with
\* MoveTokenCounterOverflow, whatever counter it carries, and the channel is
\* unchanged.
C11_OverflowAtMax ==
    [][ \A s \in Sides :
          ( /\ ChainedDelivery(s)
            /\ GetCurMoveToken(chan[s]).move_token_counter = MoveTokenCounterMax
            /\ last'.opt_move_token[1].inconsistency_counter
                 = GetCurMoveToken(chan[s]).inconsistency_counter )
          => (last'.result = "MoveTokenCounterOverflow" /\ chan' = chan) ]_vars

\* Reached: a chaining message that carries the wrapped counter 0, an
\* acceptable batch and the matching balances was rejected for overflow.
C11_Witness ==
    /\ last.op = "inject"
    /\ last.result = "MoveTokenCounterOverflow"
    /\ last.opt_move_token[1].move_token_counter = 0
    /\ last.opt_move_token[1].operations = <<OpEnableRequests>>
    /\ GetCurMoveToken(chan[last.side]).move_token_counter = MoveTokenCounterMax

\* A delivery to side s of the message its peer built with
\* create_friend_move_token on the last message it received from s.
NextInSequence(s) ==
    /\ last'.op = "receive"
    /\ last'.side = s
    /\ Outgoing(s)
    /\ GetLastIncomingMoveToken(chan[Peer(s)]) = Some(GetCurMoveToken(chan[s]))
    /\ Outgoing(Peer(s))
    /\ last'.opt_move_token = Some(GetCurMoveToken(chan[Peer(s)]))

\* C12: the move-token counter wraps and the channel keeps working: when
\* the last received message carries the maximum counter,
\* create_friend_move_token produces counter 0 and the peer accepts that
\* message as the next in sequence.
C12_WrapKeepsWorking ==
    [][ /\ \A s \in Sides :
             ( /\ last'.op = "create"
               /\ last'.side = s
               /\ last'.result = "Some"
               /\ GetCurMoveToken(chan[s]).move_token_counter = MoveTokenCounterMax )
             => last'.opt_move_token[1].move_token_counter = 0
        /\ \A s \in Sides :
             ( /\ NextInSequence(s)
               /\ GetCurMoveToken(chan[s]).move_token_counter = MoveTokenCounterMax
               /\ last'.opt_move_token[1].move_token_counter = 0
               /\ last'.opt_move_token[1].operations = <<>> )
             => last'.result = "Received" ]_vars

\* C13: in direction Incoming simulate_receive_move_token returns Duplicate,
\* with no mutation, for a message equal in every field to the last received
\* one, and ChainInconsistency for every other message, validly signed or
\* not.
C13_IncomingDuplicateOrInconsistent ==
    [][ \A s \in Sides :
          (IsReceive(last') /\ last'.side = s /\ Incoming(s)) =>
             LET m == last'.opt_move_token[1]
                 cur == GetCurMoveToken(chan[s])
             IN  /\ m = cur => /\ last'.result = "Duplicate"
                               /\ last'.error = ""
                               /\ last'.mutations = <<>>
                               /\ chan' = chan
                 /\ m # cur => last'.result = "ChainInconsistency" ]_vars

\* Reached: a message that had been accepted and applied was delivered
\* again.
C13_Witness ==
    /\ last.op = "receive"
    /\ last.result = "Duplicate"
    /\ Incoming(last.side)
    /\ GetCurMoveToken(chan[last.side]) = last.opt_move_token[1]
    /\ MoveTokenVerify(last.opt_move_token[1], keys[Peer(last.side)])

\* A validly signed message delivered to side s, in direction Outgoing, that
\* does not chain onto the current outgoing message of s.
UnchainedDelivery(s) ==
    /\ IsReceive(last')
    /\ last'.side = s
    /\ Outgoing(s)
    /\ MoveTokenVerify(last'.opt_move_token[1], keys[Peer(s)])
    /\ last'.opt_move_token[1].old_token # GetCurMoveToken(chan[s]).new_token

\* C14 (as stated): a received message whose old_token equals the new_token
\* of the receiver's current outgoing message gets RetransmitOutgoing.
C14_RetransmitWhenChained ==
    [][ \A s \in Sides :
          ChainedDelivery(s) => last'.result = "RetransmitOutgoing" ]_vars

\* C14 (amended): a validly signed received message whose new_token equals
\* the old_token of the receiver's current outgoing message, and whose
\* old_token is not that message's new_token, gets RetransmitOutgoing, not
\* ChainInconsistency.
C14_RetransmitWhenReplayed ==
    [][ \A s \in Sides :
          ( /\ UnchainedDelivery(s)
            /\ last'.opt_move_token[1].new_token
                 = GetCurMoveToken(chan[s]).old_token )
          => last'.result = "RetransmitOutgoing" ]_vars

\* Reached: the message a side had answered was delivered to it again.
C14_Witness ==
    /\ last.op = "receive"
    /\ last.result = "RetransmitOutgoing"
    /\ last.opt_move_token[1].new_token
         = GetCurMoveToken(chan[last.side]).old_token

\* C15: in direction Outgoing, a validly signed message whose old_token
\* differs from the current new_token gets RetransmitOutgoing carrying the
\* receiver's own pending outgoing message when its new_token equals that
\* message's old_token, and ChainInconsistency otherwise; neither returns a
\* mutation.
C15_RetransmitOrInconsistent ==
    [][ \A s \in Sides :
          UnchainedDelivery(s) =>
            LET m == last'.opt_move_token[1]
                cur == GetCurMoveToken(chan[s])
            IN  /\ m.new_token = cur.old_token =>
                     /\ last'.result = "RetransmitOutgoing"
                     /\ last'.retransmit
                          = Some(GetOutgoingMoveToken(chan[s])[1].friend_move_token)
                /\ m.new_token # cur.old_token =>
                     /\ last'.result = "ChainInconsistency"
                     /\ last'.retransmit = None
                /\ last'.mutations = <<>>
                /\ chan' = chan ]_vars

\* Reached: a validly signed message of an unrelated chain was rejected in
\* direction Outgoing.
C15_Witness ==
    /\ last.op = "inject"
    /\ last.result = "ChainInconsistency"
    /\ Outgoing(last.side)
    /\ MoveTokenVerify(last.opt_move_token[1], keys[Peer(last.side)])
    /\ last.retransmit = None

\* C16: round trip. When a side builds a batch, applies its mutation log to
\* its own ledger and signs a move token, the triple the message carries
\* equals the triple of the peer's ledger after the peer has replayed the
\* message's operations, so the peer returns Received; for every ledger
\* state.
C16_RoundTrip ==
    [][ \A s \in Sides :
          ( /\ NextInSequence(s)
            /\ GetCurMoveToken(chan[s]).move_token_counter < MoveTokenCounterMax )
          => LET m == last'.opt_move_token[1]
                 replayed == ProcessOperationsList(chan[s].mutual_credit, m.operations)
             IN  /\ StatedTriple(m) = Triple(replayed.mutual_credit.balance)
                 /\ last'.result = "Received" ]_vars

\* A validly signed message delivered to side s that is next in sequence
\* with the right counters.
CounterCorrectDelivery(s) ==
    /\ ChainedDelivery(s)
    /\ last'.opt_move_token[1].inconsistency_counter
         = GetCurMoveToken(chan[s]).inconsistency_counter
    /\ GetCurMoveToken(chan[s]).move_token_counter < MoveTokenCounterMax
    /\ last'.opt_move_token[1].move_token_counter
         = GetCurMoveToken(chan[s]).move_token_counter + 1

\* C17: a validly signed next-in-sequence message with correct counters
\* that contains an operation process_operations_list rejects gets
\* InvalidTransaction carrying the processing error, whatever balance and
\* pending debts it states, and the ledger is unchanged.
C17_ReplayErrorSurfaced ==
    [][ \A s \in Sides :
          LET replayed == ProcessOperationsList(chan[s].mutual_credit,
                                                last'.opt_move_token[1].operations)
          IN  (CounterCorrectDelivery(s) /\ ~replayed.ok) =>
                 /\ last'.result = "InvalidTransaction"
                 /\ last'.error = replayed.error
                 /\ chan' = chan ]_vars


\* The balance record of the ledger of side s.
LedgerBalance(s) == chan[s].mutual_credit.balance

\* The initial balance the ledger of side s was constructed with, readable
\* while nothing has been applied to it.
Constructed(s) == origin = "ledger" /\ last.op = "new" /\ s \in LedgerSides

\* The ceilings as the ledger's own comments define them: the local debt
\* (-balance) plus the credits frozen by this side stays within
\* local_max_debt, the remote debt (balance) plus the credits frozen by the
\* remote side within remote_max_debt.
WithinCeilings(b) ==
    /\ (0 - b.balance) + b.local_pending_debt <= b.local_max_debt
    /\ b.balance + b.remote_pending_debt <= b.remote_max_debt

\* A call of one of the two operation processors on the ledger of side s
\* that accepted its operation.
Accepted(s) ==
    /\ last'.op \in {"queue", "process"}
    /\ last'.side = s
    /\ last'.result = "Ok"

\* The accepted operation lowered one of the two ceilings.
CeilingLowered(s) ==
    \/ LedgerBalance(s)'.remote_max_debt < LedgerBalance(s).remote_max_debt
    \/ LedgerBalance(s)'.local_max_debt < LedgerBalance(s).local_max_debt

C19_ConstructorSeedsCeilings ==
    \A s \in LedgerSides :
        Constructed(s) =>
            LET mc == chan[s].mutual_credit
                b == mc.balance
            IN  /\ b.local_pending_debt = 0
                /\ b.remote_pending_debt = 0
                /\ mc.pending_local_requests = {}
                /\ mc.pending_remote_requests = {}
                /\ mc.local_requests_status = "Closed"
                /\ mc.remote_requests_status = "Closed"
                /\ b.remote_max_debt = MaxOf(b.balance, 0)
                /\ b.local_max_debt = MaxOf(0 - b.balance, 0)
                /\ (b.remote_max_debt = 0 \/ b.local_max_debt = 0)
                /\ b.remote_max_debt \in 0 .. MAX_FUNDER_DEBT
                /\ b.local_max_debt \in 0 .. MAX_FUNDER_DEBT

\* The part of the ledger a mutation of the given kind writes.
MutatedField(type) ==
    CASE type = "SetLocalRequestsStatus" -> "local_requests_status"
      [] type = "SetRemoteRequestsStatus" -> "remote_requests_status"
      [] type = "SetLocalMaxDebt" -> "local_max_debt"
      [] type = "SetRemoteMaxDebt" -> "remote_max_debt"
      [] type = "SetBalance" -> "balance"
      [] type \in {"InsertLocalPendingRequest", "RemoveLocalPendingRequest"} ->
            "pending_local_requests"
      [] type \in {"InsertRemotePendingRequest", "RemoveRemotePendingRequest"} ->
            "pending_remote_requests"
      [] type = "SetLocalPendingDebt" -> "local_pending_debt"
      [] type = "SetRemotePendingDebt" -> "remote_pending_debt"

\* The ledger as a flat record of its parts, the identity pair included.
LedgerFields(mc) ==
    [ local_public_key        |-> mc.local_public_key,
      remote_public_key       |-> mc.remote_public_key,
      balance                 |-> mc.balance.balance,
      remote_max_debt         |-> mc.balance.remote_max_debt,
      local_max_debt          |-> mc.balance.local_max_debt,
      local_pending_debt      |-> mc.balance.local_pending_debt,
      remote_pending_debt     |-> mc.balance.remote_pending_debt,
      pending_local_requests  |-> mc.pending_local_requests,
      pending_remote_requests |-> mc.pending_remote_requests,
      local_requests_status   |-> mc.local_requests_status,
      remote_requests_status  |-> mc.remote_requests_status ]

\* What the written part holds after the mutation: the value carried, the
\* request under its id, or no request under the id.
MutationTookEffect(m, written) ==
    CASE m.type \in {"SetLocalRequestsStatus", "SetRemoteRequestsStatus"} ->
            written = m.status
      [] m.type \in {"SetLocalMaxDebt", "SetRemoteMaxDebt", "SetBalance",
                     "SetLocalPendingDebt", "SetRemotePendingDebt"} ->
            written = m.value
      [] m.type \in {"InsertLocalPendingRequest", "InsertRemotePendingRequest"} ->
            {r \in written : r.request_id = m.request.request_id} = {m.request}
      [] m.type \in {"RemoveLocalPendingRequest", "RemoveRemotePendingRequest"} ->
            {r \in written : r.request_id = m.request_id} = {}

\* C20: a ledger mutation of any kind and value succeeds and changes its
\* own field only; the identity pair and every other field keep their
\* values.
C20_MutationFrame ==
    [][ \A s \in LedgerSides :
          (last'.op = "mutate" /\ last'.side = s) =>
             LET m == last'.mutations[1].mc_mutation
                 before == LedgerFields(chan[s].mutual_credit)
                 after == LedgerFields(chan'[s].mutual_credit)
             IN  /\ \A f \in DOMAIN before \ {MutatedField(m.type)} :
                       after[f] = before[f]
                 /\ MutationTookEffect(m, after[MutatedField(m.type)])
                 /\ chan'[s].direction = chan[s].direction
                 /\ chan'[Peer(s)] = chan[Peer(s)] ]_vars

C20_Witness ==
    \E s \in LedgerSides :
        /\ last.op = "mutate"
        /\ last.mutations[1].mc_mutation.type = "SetLocalMaxDebt"
        /\ last.mutations[1].mc_mutation.value > MAX_FUNDER_DEBT
        /\ LedgerBalance(s).local_max_debt = last.mutations[1].mc_mutation.value
        /\ LedgerBalance(s).local_pending_debt > 0
        /\ chan[s].mutual_credit.pending_local_requests # {}


\* A step that removes a pending request by id from the ledger of side s:
\* the ledger's Remove mutations and the transactional removal.
RemoveStep(s) ==
    /\ last'.op \in {"mutate", "trans_remove"}
    /\ last'.side = s
    /\ last'.mutations[1].mc_mutation.type
         \in {"RemoveLocalPendingRequest", "RemoveRemotePendingRequest"}

\* The pending set the removal of kind type works on, in ledger mc.
PendingSetOf(mc, type) ==
    IF type = "RemoveLocalPendingRequest"
    THEN mc.pending_local_requests
    ELSE mc.pending_remote_requests

\* What the removal did to the ledger: nothing when the id was absent,
\* exactly the entry of that id gone when it was present.
RemovedExactly(s) ==
    LET m == last'.mutations[1].mc_mutation
        before == LedgerFields(chan[s].mutual_credit)
        after == LedgerFields(chan'[s].mutual_credit)
        set == PendingSetOf(chan[s].mutual_credit, m.type)
        set2 == PendingSetOf(chan'[s].mutual_credit, m.type)
    IN  /\ \A f \in DOMAIN before \ {MutatedField(m.type)} : after[f] = before[f]
        /\ ~MapContains(set, m.request_id) => set2 = set
        /\ MapContains(set, m.request_id) =>
              /\ set2 = set \ {MapGet(set, m.request_id)}
              /\ Cardinality(set2) = Cardinality(set) - 1

\* C21, as stated: removing an id that is not pending leaves the ledger
\* unchanged and reports not-found to the caller; removing an id that is
\* pending removes exactly that entry.
C21_RemoveReportsNotFound ==
    [][ \A s \in LedgerSides :
          RemoveStep(s) =>
             LET m == last'.mutations[1].mc_mutation IN
             /\ RemovedExactly(s)
             /\ ~MapContains(PendingSetOf(chan[s].mutual_credit, m.type), m.request_id)
                  => last'.result = "None" ]_vars

\* C21, amended: removing an id that is not pending leaves the ledger
\* unchanged, removing one that is pending removes exactly that entry; the
\* ledger's two Remove mutations return nothing in either case, and only
\* the transactional removal tells the caller: None when the id was absent,
\* the entry when it was there.
C21_RemoveExactlyThatEntry ==
    [][ \A s \in LedgerSides :
          RemoveStep(s) =>
             LET m == last'.mutations[1].mc_mutation
                 present == MapContains(PendingSetOf(chan[s].mutual_credit, m.type),
                                        m.request_id)
             IN  /\ RemovedExactly(s)
                 /\ last'.op = "mutate" => last'.result = ""
                 /\ last'.op = "trans_remove" =>
                       last'.result = (IF present THEN "Some" ELSE "None") ]_vars

C21_Witness ==
    \E s \in LedgerSides :
        /\ last.op = "mutate"
        /\ last.mutations[1].mc_mutation.type = "RemoveLocalPendingRequest"
        /\ last.result = ""
        /\ chan[s].mutual_credit.pending_local_requests = {}
        /\ LedgerBalance(s).local_pending_debt = 0
        /\ chan[s].mutual_credit.pending_remote_requests # {}


\* A call of get_reset_terms on the channel of side s.
ResetTermsCall(s) == last'.op = "get_reset_terms" /\ last'.side = s

C23_BalanceForResetChecked ==
    [][ \A s \in Sides :
          ResetTermsCall(s) =>
             LET sum == LedgerBalance(s).balance + LedgerBalance(s).remote_pending_debt
             IN  /\ sum > I128Max =>
                       (last'.result = "Panic" /\ last'.reset_terms = None)
                 /\ last'.result # "Panic" =>
                       /\ last'.reset_terms[1].balance_for_reset = sum
                       /\ sum \in I128Min .. I128Max ]_vars

C23_Witness ==
    \E s \in Sides :
        /\ last.op = "get_reset_terms"
        /\ last.side = s
        /\ last.result = "Panic"
        /\ LedgerBalance(s).balance + LedgerBalance(s).remote_pending_debt > I128Max

\* The ledger holds nothing but a balance: no pending request and no
\* pending debt.
LedgerEmptyAt(mc, balance) ==
    /\ mc.balance.balance = balance
    /\ mc.balance.local_pending_debt = 0
    /\ mc.balance.remote_pending_debt = 0
    /\ mc.pending_local_requests = {}
    /\ mc.pending_remote_requests = {}

\* C24: after a reset the side that received the reset move token is
\* Incoming with it, the side that sent it is Outgoing with it as pending
\* message, token_wanted false and its last incoming token kept, and both
\* ledgers are at the agreed balance with empty pending sets and zero
\* pending debts, whatever the replaced channels held.
C24_ResetRebuild ==
    [][ \A y \in Sides :
          (last'.op = "reset" /\ last'.side = y) =>
             LET x == Peer(y)
                 reset_move_token == last'.opt_move_token[1]
                 balance == BalanceForReset(chan[y].mutual_credit)[1]
             IN  /\ chan'[y].direction = DirIncoming(reset_move_token)
                 /\ chan'[x].direction.tag = "Outgoing"
                 /\ chan'[x].direction.friend_move_token = reset_move_token
                 /\ chan'[x].direction.token_wanted = FALSE
                 /\ chan'[x].direction.opt_prev_incoming_move_token
                        = GetLastIncomingMoveToken(chan[x])
                 /\ LedgerEmptyAt(chan'[y].mutual_credit, balance)
                 /\ LedgerEmptyAt(chan'[x].mutual_credit, 0 - balance) ]_vars

C24_Witness ==
    \E y \in Sides :
        /\ last.op = "reset"
        /\ last.side = y
        /\ last.replaced[Peer(y)].mutual_credit.pending_local_requests # {}
        /\ last.replaced[Peer(y)].mutual_credit.pending_remote_requests # {}
        /\ last.replaced[Peer(y)].direction.tag = "Incoming"
        /\ chan[Peer(y)].direction.opt_prev_incoming_move_token # None
        /\ LedgerEmptyAt(chan[Peer(y)].mutual_credit, LedgerBalance(Peer(y)).balance)
        /\ LedgerEmptyAt(chan[y].mutual_credit, 0 - LedgerBalance(Peer(y)).balance)


\* Side s has handed a batch to create_friend_move_token and the identity
\* oracle has not answered yet.
SignatureOutstanding(s) == pc[s] = "signing"

\* C25: create_friend_move_token does not mutate the channel. While the
\* signature is outstanding the channel is Incoming and no step changes
\* it, a result that is dropped leaves it as it was, the channel becomes
\* Outgoing only by SetDirection::Outgoing applied with the signed message,
\* and a receive processed in between yields Duplicate or ChainInconsistency
\* and no mutation.
C25_CreateDoesNotMutate ==
    [][ \A s \in Sides :
          /\ SignatureOutstanding(s) => Incoming(s)
          /\ (SignatureOutstanding(s) /\ SignatureOutstanding(s)')
                => chan'[s] = chan[s]
          /\ (last'.op = "create" /\ last'.side = s /\ last'.result = "Dropped")
                => (chan' = chan /\ Incoming(s))
          /\ (Incoming(s) /\ Outgoing(s)') =>
                /\ SignatureOutstanding(s)
                /\ last'.op = "create"
                /\ last'.side = s
                /\ last'.mutations = <<TcSetDirection("Outgoing", last'.opt_move_token[1])>>
                /\ MoveTokenVerify(last'.opt_move_token[1], keys[s])
                /\ chan'[s].direction.friend_move_token = last'.opt_move_token[1]
                /\ chan'[s].mutual_credit = chan[s].mutual_credit
          /\ (IsReceive(last') /\ last'.side = s /\ SignatureOutstanding(s)) =>
                /\ last'.result \in {"Duplicate", "ChainInconsistency"}
                /\ last'.mutations = <<>> ]_vars

C25_Witness ==
    \E s \in Sides :
        /\ SignatureOutstanding(s)
        /\ draft[s] # <<>>
        /\ last.op = "receive"
        /\ last.side = s
        /\ last.result = "Duplicate"
        /\ requested >= 1

\* ------------------------------------------------------------------
\* Credit calculator (legacy networker): the credits frozen, earned on a
\* response and earned on a failure along a route.  Lengths are u32 and
\* credits are u64 in the source; here a u32 has CreditWordBits bits and
\* a u64 twice as many, so that overflow happens on small numbers.
\* ------------------------------------------------------------------

CreditWordBits == 6
MaxMiddleProps == 3
MaxContentLen == 2

U32Max == (2 ^ CreditWordBits) - 1
U64Max == (2 ^ (2 * CreditWordBits)) - 1

\* mem::size_of of the types a message is made of, scaled down so that a
\* message length fits the narrow u32.  The scaling keeps the order of the
\* sizes and keeps u16, u32 and u64 apart, so that a length built from the
\* wrong field width is a different number.
SizeOf ==
    [ PublicKey |-> 5, Signature |-> 6, Uid |-> 4, RandValue |-> 4,
      NetworkerSendPrice |-> 3, NetworkerFreezeLink |-> 3,
      NeighborRouteLink |-> 6, u16 |-> 1, u32 |-> 2, u64 |-> 3 ]

\* checked_add, checked_mul and checked_sub on options: an absent operand
\* is the `?` of the source, an overflow gives None.
CheckedAdd(a, b, max) ==
    IF a = None \/ b = None THEN None
    ELSE IF a[1] + b[1] > max THEN None
    ELSE Some(a[1] + b[1])

CheckedMul(a, b, max) ==
    IF a = None \/ b = None THEN None
    ELSE IF a[1] * b[1] > max THEN None
    ELSE Some(a[1] * b[1])

CheckedSub(a, b) ==
    IF a = None \/ b = None THEN None
    ELSE IF a[1] < b[1] THEN None
    ELSE Some(a[1] - b[1])

\* NetworkerSendPrice: a linear price, base + multiplier * length, in u64.
SendPrice(base, multiplier) == [base |-> base, multiplier |-> multiplier]

CalcCost(price, length) ==
    CheckedAdd(Some(price.base),
               CheckedMul(Some(price.multiplier), Some(length), U64Max),
               U64Max)

CalcRequestLen(request_content_len, route_len, nodes_to_dest) ==
    LET route_bytes_count ==
            CheckedAdd(
                CheckedAdd(
                    CheckedMul(Some(SizeOf.PublicKey), Some(2), U32Max),
                    CheckedMul(CheckedSub(Some(route_len), Some(2)),
                               Some(SizeOf.NeighborRouteLink), U32Max),
                    U32Max),
                CheckedMul(Some(SizeOf.NetworkerSendPrice), Some(2), U32Max),
                U32Max)
        freeze_links_len ==
            CheckedMul(CheckedSub(Some(route_len), Some(nodes_to_dest)),
                       Some(SizeOf.NetworkerFreezeLink), U32Max)
        request_overhead ==
            CheckedAdd(CheckedAdd(Some(SizeOf.Uid), Some(SizeOf.u32), U32Max),
                       Some(SizeOf.u64), U32Max)
    IN  CheckedAdd(
            CheckedAdd(CheckedAdd(request_overhead, route_bytes_count, U32Max),
                       Some(request_content_len), U32Max),
            freeze_links_len, U32Max)

\* A minimum content length of one: the length is no longer affine.
CalcResponseLenPadded(response_content_len) ==
    CheckedAdd(
        CheckedAdd(
            CheckedAdd(CheckedAdd(Some(SizeOf.Uid), Some(SizeOf.RandValue), U32Max),
                       Some(SizeOf.u64), U32Max),
            Some(IF response_content_len = 0 THEN 1 ELSE response_content_len),
            U32Max),
        Some(SizeOf.Signature), U32Max)

CalcResponseLen(response_content_len) ==
    CheckedAdd(
        CheckedAdd(
            CheckedAdd(CheckedAdd(Some(SizeOf.Uid), Some(SizeOf.RandValue), U32Max),
                       Some(SizeOf.u64), U32Max),
            Some(response_content_len), U32Max),
        Some(SizeOf.Signature), U32Max)

\* The failure's length counted with a u64 where the message has a u16.
CalcFailureLenWide(nodes_to_reporting) ==
    LET rand_nonce_sig_len ==
            CheckedAdd(Some(SizeOf.RandValue), Some(SizeOf.Signature), U32Max)
    IN  CheckedAdd(
            CheckedAdd(Some(SizeOf.Uid), Some(SizeOf.u64), U32Max),
            CheckedMul(rand_nonce_sig_len, Some(nodes_to_reporting), U32Max),
            U32Max)

CalcFailureLen(nodes_to_reporting) ==
    LET rand_nonce_sig_len ==
            CheckedAdd(Some(SizeOf.RandValue), Some(SizeOf.Signature), U32Max)
    IN  CheckedAdd(
            CheckedAdd(Some(SizeOf.Uid), Some(SizeOf.u16), U32Max),
            CheckedMul(rand_nonce_sig_len, Some(nodes_to_reporting), U32Max),
            U32Max)

PaymentProposals(middle_props, dest_response_proposal) ==
    [ middle_props |-> middle_props,
      dest_response_proposal |-> dest_response_proposal ]

\* The sum of the response multipliers of the first n middle hops.
RECURSIVE SumRespMultiplier(_, _)
SumRespMultiplier(middle_props, n) ==
    IF n = 0 THEN Some(0)
    ELSE CheckedAdd(SumRespMultiplier(middle_props, n - 1),
                    Some(middle_props[n].response.multiplier), U64Max)

\* The response bytes that were not used are not refunded.
CreditsOnSuccessDestNoRefund(payment_proposals, processing_fee_proposal, response_content_len, max_response_content_len) ==
    LET response_len == CalcResponseLen(response_content_len)
        max_response_len == CalcResponseLen(max_response_content_len)
        sum_resp_multiplier ==
            SumRespMultiplier(payment_proposals.middle_props,
                              Len(payment_proposals.middle_props))
        resp_prop == payment_proposals.dest_response_proposal
    IN  IF response_len = None \/ max_response_len = None THEN None
        ELSE CheckedAdd(
                CheckedAdd(Some(processing_fee_proposal),
                           CalcCost(resp_prop, max_response_len[1]), U64Max),
                CheckedMul(max_response_len, sum_resp_multiplier, U64Max),
                U64Max)

CreditsOnSuccessDest(payment_proposals, processing_fee_proposal, response_content_len, max_response_content_len) ==
    LET response_len == CalcResponseLen(response_content_len)
        max_response_len == CalcResponseLen(max_response_content_len)
        sum_resp_multiplier ==
            SumRespMultiplier(payment_proposals.middle_props,
                              Len(payment_proposals.middle_props))
        resp_prop == payment_proposals.dest_response_proposal
    IN  IF response_len = None \/ max_response_len = None THEN None
        ELSE CheckedAdd(
                CheckedAdd(Some(processing_fee_proposal),
                           CalcCost(resp_prop, max_response_len[1]), U64Max),
                CheckedMul(CheckedSub(max_response_len, response_len),
                           sum_resp_multiplier, U64Max),
                U64Max)

\* The hop is paid for the response only, not for passing the request on.
CreditsEarnedOnSuccessResponseOnly(middle_props, request_content_len, response_content_len, i) ==
    LET middle_props_len == Len(middle_props)
        middle_prop == middle_props[i + 1]
        request_len ==
            CalcRequestLen(request_content_len, middle_props_len,
                           middle_props_len - i)
        response_len == CalcResponseLen(response_content_len)
        max_failure_len == CalcFailureLen(middle_props_len - i)
        response_cost_len == CheckedAdd(response_len, max_failure_len, U32Max)
    IN  IF request_len = None \/ response_cost_len = None THEN None
        ELSE CalcCost(middle_prop.response, response_cost_len[1])

\* What middle hop i (counted from 0) earns on a response.
CreditsEarnedOnSuccess(middle_props, request_content_len, response_content_len, i) ==
    LET middle_props_len == Len(middle_props)
        middle_prop == middle_props[i + 1]
        request_len ==
            CalcRequestLen(request_content_len, middle_props_len,
                           middle_props_len - i)
        response_len == CalcResponseLen(response_content_len)
        max_failure_len == CalcFailureLen(middle_props_len - i)
        response_cost_len == CheckedAdd(response_len, max_failure_len, U32Max)
    IN  IF request_len = None \/ response_cost_len = None THEN None
        ELSE CheckedAdd(CalcCost(middle_prop.request, request_len[1]),
                        CalcCost(middle_prop.response, response_cost_len[1]),
                        U64Max)

\* for i in from .. to: sum_credits = sum_credits.checked_add(credits_earned)?
RECURSIVE SumCreditsOnSuccess(_, _, _, _, _, _)
SumCreditsOnSuccess(middle_props, request_content_len, response_content_len, from, to, sum_credits) ==
    IF sum_credits = None \/ from >= to THEN sum_credits
    ELSE SumCreditsOnSuccess(
            middle_props, request_content_len, response_content_len,
            from + 1, to,
            CheckedAdd(sum_credits,
                       CreditsEarnedOnSuccess(middle_props, request_content_len,
                                              response_content_len, from),
                       U64Max))

CreditsOnSuccess(payment_proposals, processing_fee_proposal, request_content_len, response_content_len, max_response_content_len, nodes_to_dest) ==
    LET middle_props == payment_proposals.middle_props
        middle_props_len == Len(middle_props)
        dest == CreditsOnSuccessDest(payment_proposals, processing_fee_proposal,
                                     response_content_len, max_response_content_len)
        from == CheckedSub(Some(middle_props_len), Some(nodes_to_dest))
    IN  IF dest = None \/ from = None THEN None
        ELSE SumCreditsOnSuccess(middle_props, request_content_len,
                                 response_content_len,
                                 from[1], middle_props_len, dest)

\* The outcome of a failed assert!: neither a value nor None.
Panicked == <<"panicked", "assertion failed">>

\* What middle hop i < end_index earns on a failure reported by end_index.
CreditsEarnedOnFailure(middle_props, request_content_len, end_index, i) ==
    LET middle_props_len == Len(middle_props)
        middle_prop == middle_props[i + 1]
        request_len ==
            CalcRequestLen(request_content_len, middle_props_len,
                           middle_props_len - i)
        failure_len == CalcFailureLen(end_index - i)
    IN  IF request_len = None \/ failure_len = None THEN None
        ELSE CheckedAdd(CalcCost(middle_prop.request, request_len[1]),
                        CalcCost(middle_prop.response, failure_len[1]),
                        U64Max)

RECURSIVE SumCreditsOnFailure(_, _, _, _, _)
SumCreditsOnFailure(middle_props, request_content_len, from, end_index, sum_credits) ==
    IF sum_credits = None \/ from >= end_index THEN sum_credits
    ELSE SumCreditsOnFailure(
            middle_props, request_content_len, from + 1, end_index,
            CheckedAdd(sum_credits,
                       CreditsEarnedOnFailure(middle_props, request_content_len,
                                              end_index, from),
                       U64Max))

CreditsOnFailure(payment_proposals, request_content_len, nodes_to_reporting, reporting_to_dest) ==
    IF ~(reporting_to_dest > 1) THEN Panicked
    ELSE
    LET middle_props == payment_proposals.middle_props
        middle_props_len == Len(middle_props)
        end_index == CheckedSub(Some(middle_props_len), Some(reporting_to_dest))
        start_index == CheckedSub(end_index, Some(nodes_to_reporting))
    IN  IF start_index = None THEN None
        ELSE
        LET sum_credits ==
                SumCreditsOnFailure(middle_props, request_content_len,
                                    start_index[1], end_index[1], Some(0))
            failure_len_reporting == CalcFailureLen(0)
        IN  IF sum_credits = None \/ failure_len_reporting = None THEN None
            ELSE CheckedAdd(sum_credits,
                            CalcCost(middle_props[end_index[1] + 1].response,
                                     failure_len_reporting[1]),
                            U64Max)

\* The response is taken at its greatest length, not at length 0.
CreditsToFreezeFullResponse(payment_proposals, processing_fee_proposal, request_content_len, max_response_content_len, nodes_to_dest) ==
    CreditsOnSuccess(payment_proposals, processing_fee_proposal,
                     request_content_len, max_response_content_len,
                     max_response_content_len, nodes_to_dest)

CreditsToFreeze(payment_proposals, processing_fee_proposal, request_content_len, max_response_content_len, nodes_to_dest) ==
    CreditsOnSuccess(payment_proposals, processing_fee_proposal,
                     request_content_len, 0,
                     max_response_content_len, nodes_to_dest)

\* A route: one link per middle hop, and the destination's response price.
NeighborsRoute(middle_props, dest_response_proposal) ==
    [ route_links |-> [i \in 1 .. Len(middle_props) |->
                          [payment_proposal_pair |-> middle_props[i]]],
      dest_response_proposal |-> dest_response_proposal ]

CreditCalculatorNew(route, request_content_len, processing_fee_proposal, max_response_len) ==
    LET middle_props ==
            [i \in 1 .. Len(route.route_links) |->
                route.route_links[i].payment_proposal_pair]
        route_len == CheckedAdd(Some(Len(route.route_links)), Some(2), U32Max)
    IN  IF route_len = None THEN None
        ELSE Some([ payment_proposals |->
                        PaymentProposals(middle_props, route.dest_response_proposal),
                    route_len |-> route_len[1],
                    request_content_len |-> request_content_len,
                    processing_fee_proposal |-> processing_fee_proposal,
                    max_response_len |-> max_response_len ])

FreezeIndexToNodesToDest(self, index) ==
    CheckedSub(CheckedSub(Some(self.route_len), Some(index)), Some(1))

CalculatorCreditsToFreeze(self, index) ==
    LET nodes_to_dest == FreezeIndexToNodesToDest(self, index)
    IN  IF nodes_to_dest = None THEN None
        ELSE CreditsToFreeze(self.payment_proposals, self.processing_fee_proposal,
                             self.request_content_len, self.max_response_len,
                             nodes_to_dest[1])

CalculatorCreditsOnSuccess(self, index, response_content_len) ==
    LET nodes_to_dest == FreezeIndexToNodesToDest(self, index)
    IN  IF nodes_to_dest = None THEN None
        ELSE CreditsOnSuccess(self.payment_proposals, self.processing_fee_proposal,
                              self.request_content_len, response_content_len,
                              self.max_response_len, nodes_to_dest[1])

CalculatorCreditsOnFailure(self, index, reporting_index) ==
    LET nodes_to_reporting == CheckedSub(Some(reporting_index), Some(index))
        reporting_to_dest == FreezeIndexToNodesToDest(self, reporting_index)
    IN  IF nodes_to_reporting = None \/ reporting_to_dest = None THEN None
        ELSE CreditsOnFailure(self.payment_proposals, self.request_content_len,
                              nodes_to_reporting[1], reporting_to_dest[1])

\* ------------------------------------------------------------------
\* The calculator applied to requests: a request fixes the proposals of
\* the route, the processing fee and the content lengths; every function
\* is then applied to it once, at every hop and response length.
\* ------------------------------------------------------------------

ProposalPair(request, response) == [request |-> request, response |-> response]

ProposalPairs ==
    { ProposalPair(SendPrice(0, 0), SendPrice(0, 0)),
      ProposalPair(SendPrice(1, 1), SendPrice(0, 0)),
      ProposalPair(SendPrice(0, 1), SendPrice(1, 2)) }

DestResponseProposals == { SendPrice(0, 0), SendPrice(2, 3) }

MiddleProps == UNION { [1 .. n -> ProposalPairs] : n \in 0 .. MaxMiddleProps }

ProcessingFees == { 0, 1, U64Max }

RequestContentLens == { 0, U32Max }

ContentLens == (0 .. MaxContentLen) \cup { U32Max }

\* Hops, counted from the destination: one more than the route has.
NodesToDest == 0 .. MaxMiddleProps + 1

\* Hops, counted from the source: one more than the route has.
RouteIndices == 0 .. MaxMiddleProps + 2

InitCredit ==
    /\ \E a \in PublicKeys, b \in PublicKeys :
         /\ a < b
         /\ \A c \in PublicKeys \ {a} : b <= c
         /\ keys = <<a, b>>
    /\ origin = "credit"
    /\ chan = [s \in Sides |-> TokenChannelNew(keys[s], keys[Peer(s)])]
    /\ pc = [s \in Sides |-> "idle"]
    /\ net = [s \in Sides |-> {}]
    /\ requested = 0
    /\ last = Call("new", 0, "", "", None, <<>>, None)
    /\ \E middle_props \in MiddleProps,
          dest_response_proposal \in DestResponseProposals,
          processing_fee_proposal \in ProcessingFees,
          request_content_len \in RequestContentLens,
          max_response_content_len \in ContentLens :
         draft = [ payment_proposals |->
                       PaymentProposals(middle_props, dest_response_proposal),
                   processing_fee_proposal |-> processing_fee_proposal,
                   request_content_len |-> request_content_len,
                   max_response_content_len |-> max_response_content_len ]

Outcome(credits) ==
    IF credits = Panicked THEN "Panic"
    ELSE IF credits = None THEN "None"
    ELSE "Some"

CreditCall(op, args, credits) ==
    Call(op, 0, Outcome(credits), "", None, <<>>, None)
        @@ [args |-> args, credits |-> credits]

\* A request that was not calculated on yet.
Fresh ==
    /\ origin = "credit"
    /\ last.op = "new"

CreditsOnSuccessDestCall(response_content_len) ==
    /\ Fresh
    /\ last' = CreditCall("credits_on_success_dest",
               [response_content_len |-> response_content_len],
               CreditsOnSuccessDest(draft.payment_proposals,
                                    draft.processing_fee_proposal,
                                    response_content_len,
                                    draft.max_response_content_len))
    /\ UNCHANGED <<keys, origin, chan, pc, draft, net, requested>>

CreditsOnSuccessCall(response_content_len, nodes_to_dest) ==
    /\ Fresh
    /\ last' = CreditCall("credits_on_success",
               [response_content_len |-> response_content_len,
                nodes_to_dest |-> nodes_to_dest],
               CreditsOnSuccess(draft.payment_proposals,
                                draft.processing_fee_proposal,
                                draft.request_content_len,
                                response_content_len,
                                draft.max_response_content_len,
                                nodes_to_dest))
    /\ UNCHANGED <<keys, origin, chan, pc, draft, net, requested>>

CreditsToFreezeCall(nodes_to_dest) ==
    /\ Fresh
    /\ last' = CreditCall("credits_to_freeze",
               [nodes_to_dest |-> nodes_to_dest],
               CreditsToFreeze(draft.payment_proposals,
                               draft.processing_fee_proposal,
                               draft.request_content_len,
                               draft.max_response_content_len,
                               nodes_to_dest))
    /\ UNCHANGED <<keys, origin, chan, pc, draft, net, requested>>

CreditsOnFailureCall(nodes_to_reporting, reporting_to_dest) ==
    /\ Fresh
    /\ last' = CreditCall("credits_on_failure",
               [nodes_to_reporting |-> nodes_to_reporting,
                reporting_to_dest |-> reporting_to_dest],
               CreditsOnFailure(draft.payment_proposals,
                                draft.request_content_len,
                                nodes_to_reporting,
                                reporting_to_dest))
    /\ UNCHANGED <<keys, origin, chan, pc, draft, net, requested>>

\* The CreditCalculator of the request in draft.
Calculator ==
    CreditCalculatorNew(
        NeighborsRoute(draft.payment_proposals.middle_props,
                       draft.payment_proposals.dest_response_proposal),
        draft.request_content_len,
        draft.processing_fee_proposal,
        draft.max_response_content_len)[1]

FreezeAtIndex(index) ==
    /\ Fresh
    /\ last' = CreditCall("CreditCalculator::credits_to_freeze",
               [index |-> index],
               CalculatorCreditsToFreeze(Calculator, index))
    /\ UNCHANGED <<keys, origin, chan, pc, draft, net, requested>>

SuccessAtIndex(index, response_content_len) ==
    /\ Fresh
    /\ last' = CreditCall("CreditCalculator::credits_on_success",
               [index |-> index, response_content_len |-> response_content_len],
               CalculatorCreditsOnSuccess(Calculator, index, response_content_len))
    /\ UNCHANGED <<keys, origin, chan, pc, draft, net, requested>>

FailureAtIndex(index, reporting_index) ==
    /\ Fresh
    /\ last' = CreditCall("CreditCalculator::credits_on_failure",
               [index |-> index, reporting_index |-> reporting_index],
               CalculatorCreditsOnFailure(Calculator, index, reporting_index))
    /\ UNCHANGED <<keys, origin, chan, pc, draft, net, requested>>

NextCredit ==
    \/ \E r \in ContentLens : CreditsOnSuccessDestCall(r)
    \/ \E r \in ContentLens, n \in NodesToDest : CreditsOnSuccessCall(r, n)
    \/ \E n \in NodesToDest : CreditsToFreezeCall(n)
    \/ \E n \in 0 .. MaxMiddleProps, d \in NodesToDest : CreditsOnFailureCall(n, d)
    \/ \E i \in RouteIndices : FreezeAtIndex(i)
    \/ \E i \in RouteIndices, r \in {0, MaxContentLen} : SuccessAtIndex(i, r)
    \/ \E i \in RouteIndices, j \in RouteIndices : FailureAtIndex(i, j)

SpecCredit == InitCredit /\ [][NextCredit]_vars

\* ------------------------------------------------------------------
\* Credit calculator: properties
\* ------------------------------------------------------------------

MiddlePropsLen == Len(draft.payment_proposals.middle_props)

\* The functions applied to the request in draft.
SuccessDestOf(processing_fee_proposal, response_content_len, max_response_content_len) ==
    CreditsOnSuccessDest(draft.payment_proposals, processing_fee_proposal,
                         response_content_len, max_response_content_len)

SuccessOf(processing_fee_proposal, request_content_len, response_content_len, max_response_content_len, nodes_to_dest) ==
    CreditsOnSuccess(draft.payment_proposals, processing_fee_proposal,
                     request_content_len, response_content_len,
                     max_response_content_len, nodes_to_dest)

SuccessAt(response_content_len, nodes_to_dest) ==
    SuccessOf(draft.processing_fee_proposal, draft.request_content_len,
              response_content_len, draft.max_response_content_len,
              nodes_to_dest)

FreezeAt(nodes_to_dest) ==
    CreditsToFreeze(draft.payment_proposals, draft.processing_fee_proposal,
                    draft.request_content_len, draft.max_response_content_len,
                    nodes_to_dest)

\* C26: whenever credits_on_success and credits_to_freeze are both defined
\* for the same request and the same hop, the credits earned on a response
\* are at most the credits frozen; the same holds for the two methods of
\* the CreditCalculator at the same index.
C26_FreezeIsMax ==
    /\ (/\ last.op = "credits_on_success"
        /\ last.result = "Some"
        /\ FreezeAt(last.args.nodes_to_dest) # None)
           => /\ last.args.nodes_to_dest <= MiddlePropsLen
              /\ last.args.response_content_len <= draft.max_response_content_len
              /\ last.credits[1] <= FreezeAt(last.args.nodes_to_dest)[1]
    /\ (/\ last.op = "CreditCalculator::credits_on_success"
        /\ last.result = "Some"
        /\ CalculatorCreditsToFreeze(Calculator, last.args.index) # None)
           => last.credits[1] <= CalculatorCreditsToFreeze(Calculator, last.args.index)[1]

C26_Witness ==
    /\ last.op = "credits_on_success"
    /\ last.result = "Some"
    /\ last.args.response_content_len > 0
    /\ last.args.nodes_to_dest >= 1
    /\ last.args.nodes_to_dest < MiddlePropsLen
    /\ FreezeAt(last.args.nodes_to_dest) # None
    /\ last.credits[1] < FreezeAt(last.args.nodes_to_dest)[1]

\* The hops nearer the source than the hop nodes_to_dest away from the
\* destination all ask a positive price per response byte.
NearerHopsChargeResponse(nodes_to_dest) ==
    /\ nodes_to_dest < MiddlePropsLen
    /\ \A i \in 1 .. MiddlePropsLen - nodes_to_dest :
          draft.payment_proposals.middle_props[i].response.multiplier > 0

\* A call of credits_on_success that returned credits, and whose response
\* could have been one byte longer with credits returned as well.
SuccessWithLongerResponse ==
    /\ last.op = "credits_on_success"
    /\ last.result = "Some"
    /\ last.args.response_content_len + 1 <= draft.max_response_content_len
    /\ SuccessAt(last.args.response_content_len + 1, last.args.nodes_to_dest) # None

\* C27: credits_on_success never grows with response_content_len (up to
\* max_response_content_len); it strictly decreases when the hop is not
\* the first middle hop and all hops nearer the source have a positive
\* response multiplier; it is constant when nodes_to_dest is the number of
\* middle hops.
C27_SuccessNonIncreasing ==
    SuccessWithLongerResponse =>
        LET n == last.args.nodes_to_dest
            longer == SuccessAt(last.args.response_content_len + 1, n)[1]
        IN  /\ longer <= last.credits[1]
            /\ NearerHopsChargeResponse(n) => longer < last.credits[1]
            /\ n = MiddlePropsLen => longer = last.credits[1]

C27_Witness ==
    /\ SuccessWithLongerResponse
    /\ last.args.nodes_to_dest >= 1
    /\ NearerHopsChargeResponse(last.args.nodes_to_dest)
    /\ SuccessAt(last.args.response_content_len + 1, last.args.nodes_to_dest)[1]
          < last.credits[1]

\* A call of credits_on_failure that returned credits, for a reporting
\* hop and a paid hop that are both middle hops of the route.
FailureOnRoute ==
    /\ last.op = "credits_on_failure"
    /\ last.result = "Some"
    /\ last.args.reporting_to_dest > 1
    /\ last.args.nodes_to_reporting + last.args.reporting_to_dest <= MiddlePropsLen

\* The response lengths for which the same hop's credits_on_success is
\* defined for the request.
SuccessDefinedLens ==
    { r \in 0 .. draft.max_response_content_len :
        SuccessAt(r, last.args.nodes_to_reporting + last.args.reporting_to_dest) # None }

OnALine(first, second, third) ==
    (first # None /\ second # None /\ third # None)
        => first[1] + third[1] = 2 * second[1]

\* C29: credits_on_success_dest has zero second differences in the
\* processing fee, in response_content_len up to max_response_content_len
\* and in max_response_content_len from response_content_len on;
\* credits_on_success has zero second differences in the processing fee
\* and in the request, response and maximal response content lengths, at
\* every hop of the route.
C29_Affine ==
    LET fee == draft.processing_fee_proposal
        req == draft.request_content_len
        max == draft.max_response_content_len
    IN  /\ (last.op = "credits_on_success_dest" /\ last.result = "Some") =>
              LET r == last.args.response_content_len
              IN  /\ fee + 2 <= U64Max =>
                        OnALine(last.credits, SuccessDestOf(fee + 1, r, max),
                                SuccessDestOf(fee + 2, r, max))
                  /\ r + 2 <= max =>
                        OnALine(last.credits, SuccessDestOf(fee, r + 1, max),
                                SuccessDestOf(fee, r + 2, max))
                  /\ max + 2 <= U32Max =>
                        OnALine(last.credits, SuccessDestOf(fee, r, max + 1),
                                SuccessDestOf(fee, r, max + 2))
        /\ (last.op = "credits_on_success" /\ last.result = "Some") =>
              LET r == last.args.response_content_len
                  n == last.args.nodes_to_dest
              IN  /\ n <= MiddlePropsLen
                  /\ fee + 2 <= U64Max =>
                        OnALine(last.credits, SuccessOf(fee + 1, req, r, max, n),
                                SuccessOf(fee + 2, req, r, max, n))
                  /\ req + 2 <= U32Max =>
                        OnALine(last.credits, SuccessOf(fee, req + 1, r, max, n),
                                SuccessOf(fee, req + 2, r, max, n))
                  /\ r + 2 <= max =>
                        OnALine(last.credits, SuccessOf(fee, req, r + 1, max, n),
                                SuccessOf(fee, req, r + 2, max, n))
                  /\ max + 2 <= U32Max =>
                        OnALine(last.credits, SuccessOf(fee, req, r, max + 1, n),
                                SuccessOf(fee, req, r, max + 2, n))

C29_Witness ==
    /\ last.op = "credits_on_success"
    /\ last.result = "Some"
    /\ last.args.nodes_to_dest >= 1
    /\ last.args.nodes_to_dest < MiddlePropsLen
    /\ last.args.response_content_len + 2 <= draft.max_response_content_len
    /\ SuccessAt(last.args.response_content_len + 2, last.args.nodes_to_dest) # None
    /\ SuccessAt(last.args.response_content_len + 2, last.args.nodes_to_dest)[1]
          < last.credits[1]
    /\ SuccessOf(draft.processing_fee_proposal, draft.request_content_len + 2,
                 last.args.response_content_len, draft.max_response_content_len,
                 last.args.nodes_to_dest) # None
    /\ SuccessOf(draft.processing_fee_proposal, draft.request_content_len + 2,
                 last.args.response_content_len, draft.max_response_content_len,
                 last.args.nodes_to_dest)[1] > last.credits[1]

\* C30: no call of the credit calculator panics: each of the free
\* functions and of the CreditCalculator's methods returns credits or
\* None, whatever the request, the hop and the reporting hop.
C30_NeverPanics ==
    (origin = "credit" /\ last.op # "new") => last.result \in {"Some", "None"}

\* ------------------------------------------------------------------
\* Message lengths: the three length functions applied to a content
\* length, a route length and a number of nodes, small ones and ones at
\* the top of the u32 range.
\* ------------------------------------------------------------------

LenContents == (0 .. MaxContentLen) \cup (U32Max - MaxContentLen .. U32Max)

LenRoutes == (0 .. MaxMiddleProps + 2) \cup { U32Max }

LenNodes == (0 .. MaxMiddleProps + 3) \cup { U32Max }

InitLen ==
    /\ \E a \in PublicKeys, b \in PublicKeys :
         /\ a < b
         /\ \A c \in PublicKeys \ {a} : b <= c
         /\ keys = <<a, b>>
    /\ origin = "lengths"
    /\ chan = [s \in Sides |-> TokenChannelNew(keys[s], keys[Peer(s)])]
    /\ pc = [s \in Sides |-> "idle"]
    /\ net = [s \in Sides |-> {}]
    /\ requested = 0
    /\ last = Call("new", 0, "", "", None, <<>>, None)
    /\ \E content_len \in LenContents, route_len \in LenRoutes, nodes \in LenNodes :
         draft = [ content_len |-> content_len,
                   route_len |-> route_len,
                   nodes |-> nodes ]

CalcRequestLenCall ==
    /\ origin = "lengths"
    /\ last.op = "new"
    /\ last' = CreditCall("calc_request_len", draft,
                          CalcRequestLen(draft.content_len, draft.route_len,
                                         draft.nodes))
    /\ UNCHANGED <<keys, origin, chan, pc, draft, net, requested>>

CalcResponseLenCall ==
    /\ origin = "lengths"
    /\ last.op = "new"
    /\ last' = CreditCall("calc_response_len", draft,
                          CalcResponseLen(draft.content_len))
    /\ UNCHANGED <<keys, origin, chan, pc, draft, net, requested>>

CalcFailureLenCall ==
    /\ origin = "lengths"
    /\ last.op = "new"
    /\ last' = CreditCall("calc_failure_len", draft,
                          CalcFailureLen(draft.nodes))
    /\ UNCHANGED <<keys, origin, chan, pc, draft, net, requested>>

NextLen ==
    \/ CalcRequestLenCall
    \/ CalcResponseLenCall
    \/ CalcFailureLenCall

SpecLen == InitLen /\ [][NextLen]_vars

\* A length as a u32: None when it does not fit.
ExactLen(total) == IF total > U32Max THEN None ELSE Some(total)

\* C31: the three message lengths are the sums of sizes the formulas
\* state, None when the sum does not fit a u32, when route_len < 2 and
\* when nodes_to_dest > route_len; and each has zero second differences in
\* each of its arguments where it is defined.
C31_LengthsExact ==
    LET c == draft.content_len
        route_len == draft.route_len
        n == draft.nodes
    IN  /\ last.op = "calc_response_len" =>
              /\ last.credits =
                    ExactLen(SizeOf.Uid + SizeOf.RandValue + SizeOf.u64 + c
                               + SizeOf.Signature)
              /\ c + 2 <= U32Max =>
                    OnALine(last.credits, CalcResponseLen(c + 1),
                            CalcResponseLen(c + 2))
        /\ last.op = "calc_failure_len" =>
              /\ last.credits =
                    ExactLen(SizeOf.Uid + SizeOf.u16
                               + n * (SizeOf.RandValue + SizeOf.Signature))
              /\ n + 2 <= U32Max =>
                    OnALine(last.credits, CalcFailureLen(n + 1),
                            CalcFailureLen(n + 2))
        /\ last.op = "calc_request_len" =>
              /\ last.credits =
                    IF route_len < 2 \/ n > route_len THEN None
                    ELSE ExactLen(SizeOf.Uid + SizeOf.u32 + SizeOf.u64
                                    + (2 * SizeOf.PublicKey
                                         + (route_len - 2) * SizeOf.NeighborRouteLink
                                         + 2 * SizeOf.NetworkerSendPrice)
                                    + c
                                    + (route_len - n) * SizeOf.NetworkerFreezeLink)
              /\ c + 2 <= U32Max =>
                    OnALine(last.credits, CalcRequestLen(c + 1, route_len, n),
                            CalcRequestLen(c + 2, route_len, n))
              /\ route_len + 2 <= U32Max =>
                    OnALine(last.credits, CalcRequestLen(c, route_len + 1, n),
                            CalcRequestLen(c, route_len + 2, n))
              /\ n + 2 <= U32Max =>
                    OnALine(last.credits, CalcRequestLen(c, route_len, n + 1),
                            CalcRequestLen(c, route_len, n + 2))

C31_Witness ==
    /\ last.op = "calc_request_len"
    /\ last.result = "Some"
    /\ draft.content_len > 0
    /\ draft.route_len > 2
    /\ draft.nodes >= 1
    /\ draft.nodes + 2 <= draft.route_len
    /\ last.credits[1] > CalcRequestLen(draft.content_len, draft.route_len,
                                        draft.nodes + 2)[1]

\* ------------------------------------------------------------------
\* Canonical serialization (common): the bytes of a u32, of an Option and
\* of a Vec.  A byte is a number in 0 .. 255; a value carries its type:
\* U32(n), OptionOf(opt) with opt None or Some(value), VecOf(items).
\* ------------------------------------------------------------------

MaxVecLen == 2

U32(n) == [type |-> "u32", value |-> n]
OptionOf(opt) == [type |-> "Option", value |-> opt]
VecOf(items) == [type |-> "Vec", value |-> items]

\* write_u32::<BigEndian> / write_u64::<BigEndian>: the `width` least
\* significant bytes of n, most significant first.
RECURSIVE WriteLittleEndian(_, _)
WriteLittleEndian(n, width) ==
    IF width = 0 THEN <<>>
    ELSE <<n % 256>> \o WriteLittleEndian(n \div 256, width - 1)

RECURSIVE WriteBigEndian(_, _)
WriteBigEndian(n, width) ==
    IF width = 0 THEN <<>>
    ELSE Append(WriteBigEndian(n \div 256, width - 1), n % 256)

\* The u32 written least significant byte first.
SerializeU32LittleEndian(n) == WriteLittleEndian(n, 4)

SerializeU32(n) == WriteBigEndian(n, 4)

RECURSIVE CanonicalSerialize(_)
RECURSIVE SerializeItems(_, _)

\* for t in self.iter() { res_data.extend_from_slice(&t.canonical_serialize()) }
SerializeItems(items, res_data) ==
    IF items = <<>> THEN res_data
    ELSE SerializeItems(Tail(items), res_data \o CanonicalSerialize(Head(items)))

SerializeOption(opt) ==
    IF opt = None THEN <<0>>
    ELSE <<1>> \o CanonicalSerialize(opt[1])

SerializeVec(items) ==
    SerializeItems(items, WriteBigEndian(Len(items), 8))

CanonicalSerialize(t) ==
    CASE t.type = "u32" -> SerializeU32(t.value)
      [] t.type = "Option" -> SerializeOption(t.value)
      [] t.type = "Vec" -> SerializeVec(t.value)

\* The values serialized: numbers with one, two and four significant
\* bytes, options and vectors of them, and one level of nesting.
U32Values == { 0, 1, 255, 256, 16909060, 2147483647 }

SeqsOf(S) == UNION { [1 .. n -> S] : n \in 0 .. MaxVecLen }

U32s == { U32(n) : n \in U32Values }
OptionU32s == { OptionOf(None) } \cup { OptionOf(Some(t)) : t \in U32s }
VecU32s == { VecOf(items) : items \in SeqsOf(U32s) }

SerializedValues ==
    U32s \cup OptionU32s \cup VecU32s
      \cup { VecOf(items) : items \in SeqsOf(OptionU32s) }
      \cup { OptionOf(None) } \cup { OptionOf(Some(t)) : t \in VecU32s }

InitSerialize ==
    /\ \E a \in PublicKeys, b \in PublicKeys :
         /\ a < b
         /\ \A c \in PublicKeys \ {a} : b <= c
         /\ keys = <<a, b>>
    /\ origin = "serialize"
    /\ chan = [s \in Sides |-> TokenChannelNew(keys[s], keys[Peer(s)])]
    /\ pc = [s \in Sides |-> "idle"]
    /\ net = [s \in Sides |-> {}]
    /\ requested = 0
    /\ last = Call("new", 0, "", "", None, <<>>, None)
    /\ \E t \in SerializedValues : draft = t

CanonicalSerializeCall ==
    /\ origin = "serialize"
    /\ last.op = "new"
    /\ last' = Call("canonical_serialize", 0, "", "", None, <<>>, None)
                  @@ [res_data |-> CanonicalSerialize(draft)]
    /\ UNCHANGED <<keys, origin, chan, pc, draft, net, requested>>

NextSerialize == CanonicalSerializeCall

SpecSerialize == InitSerialize /\ [][NextSerialize]_vars

\* The number a string of bytes spells, most significant byte first.
RECURSIVE ReadBigEndian(_)
ReadBigEndian(bytes) ==
    IF bytes = <<>> THEN 0
    ELSE 256 * ReadBigEndian(SubSeq(bytes, 1, Len(bytes) - 1)) + bytes[Len(bytes)]

\* The place of item i's bytes in a serialized vector: after the count
\* and the bytes of the items before it.
RECURSIVE ItemOffset(_, _)
ItemOffset(items, i) ==
    IF i = 1 THEN 8
    ELSE ItemOffset(items, i - 1) + Len(CanonicalSerialize(items[i - 1]))

\* C32: a u32 is four bytes spelling it most significant first; an absent
\* option is the byte 0, a present one the byte 1 followed by the value's
\* bytes; a vector is eight bytes spelling its length, most significant
\* first, followed by the bytes of its items, each in its place and in
\* order, and nothing more; the bytes depend on the value only.
C32_CanonicalLayout ==
    last.op = "canonical_serialize" =>
        LET res_data == last.res_data
            t == draft
        IN  /\ \A i \in 1 .. Len(res_data) : res_data[i] \in 0 .. 255
            /\ t.type = "u32" =>
                  /\ Len(res_data) = 4
                  /\ ReadBigEndian(res_data) = t.value
            /\ (t.type = "Option" /\ t.value = None) => res_data = <<0>>
            /\ (t.type = "Option" /\ t.value # None) =>
                  /\ res_data[1] = 1
                  /\ Tail(res_data) = CanonicalSerialize(t.value[1])
            /\ t.type = "Vec" =>
                  /\ Len(res_data) >= 8
                  /\ ReadBigEndian(SubSeq(res_data, 1, 8)) = Len(t.value)
                  /\ \A i \in 1 .. Len(t.value) :
                        SubSeq(res_data, ItemOffset(t.value, i) + 1,
                               ItemOffset(t.value, i)
                                 + Len(CanonicalSerialize(t.value[i])))
                          = CanonicalSerialize(t.value[i])
                  /\ Len(res_data) = ItemOffset(t.value, Len(t.value) + 1)
            /\ res_data = CanonicalSerialize(t)

C32_Witness ==
    /\ last.op = "canonical_serialize"
    /\ draft = VecOf(<<OptionOf(Some(U32(16909060))), OptionOf(None)>>)
    /\ last.res_data = <<0, 0, 0, 0, 0, 0, 0, 2, 1, 1, 2, 3, 4, 0>>

\* C33: SetDirection::Outgoing(m) on a channel Incoming(x) gives the
\* direction Outgoing with message m, token_wanted false and the previous
\* incoming message x; get_last_incoming_move_token is x before and after
\* and the ledger is the same; a channel whose last incoming message is
\* None had none in the state before, was Outgoing and still holds the
\* same outgoing message.
C33_OutgoingKeepsIncoming ==
    [][ \A s \in Sides :
          /\ (Incoming(s) /\ Outgoing(s)') =>
                LET x == chan[s].direction.friend_move_token
                IN  /\ last'.mutations # <<>>
                    /\ last'.mutations[1].type = "SetDirection"
                    /\ chan'[s].direction =
                          DirOutgoing(last'.mutations[1].friend_move_token,
                                      FALSE, Some(x))
                    /\ GetLastIncomingMoveToken(chan[s]) = Some(x)
                    /\ GetLastIncomingMoveToken(chan'[s]) = Some(x)
                    /\ chan'[s].mutual_credit = chan[s].mutual_credit
          /\ GetLastIncomingMoveToken(chan'[s]) = None =>
                /\ GetLastIncomingMoveToken(chan[s]) = None
                /\ Outgoing(s) /\ Outgoing(s)'
                /\ chan'[s].direction.friend_move_token
                      = chan[s].direction.friend_move_token ]_vars

C33_Witness ==
    \E s \in Sides :
        /\ last.op = "create"
        /\ last.side = s
        /\ last.result = "Some"
        /\ Outgoing(s)
        /\ chan[s].direction.opt_prev_incoming_move_token # None
        /\ chan[s].direction.opt_prev_incoming_move_token[1].operations # <<>>
        /\ GetLastIncomingMoveToken(chan[Peer(s)]) # None
        /\ chan[s].direction.token_wanted = FALSE

\* A call of credits_on_failure that pays the reporting hop itself, the
\* reporting hop being one of the middle hops.
ReportingHopPaid ==
    /\ last.op = "credits_on_failure"
    /\ last.args.nodes_to_reporting = 0
    /\ last.args.reporting_to_dest \in 1 .. MiddlePropsLen

\* C34: with nodes_to_reporting = 0, credits_on_failure is the reporting
\* hop's response price of a failure message of zero hops, whatever the
\* request's content length.
C34_ReportingHopCredits ==
    ReportingHopPaid =>
        LET reporting == draft.payment_proposals.middle_props[
                             MiddlePropsLen - last.args.reporting_to_dest + 1]
        IN  /\ last.credits = CalcCost(reporting.response, CalcFailureLen(0)[1])
            /\ \A request_content_len \in RequestContentLens :
                  CreditsOnFailure(draft.payment_proposals, request_content_len,
                                   0, last.args.reporting_to_dest)
                    = last.credits

\* A request whose fee and content lengths are far from the top of their
\* ranges: with the prices of the model no quantity computed for it
\* overflows on the routes of the model.
SmallRequest ==
    /\ draft.processing_fee_proposal <= 1
    /\ draft.request_content_len <= MaxContentLen
    /\ draft.max_response_content_len <= MaxContentLen

\* A call that prices a hop of the route of a small request: the
\* destination or one of the middle hops, for a response within the
\* maximal length.
HopPriced ==
    /\ SmallRequest
    /\ MiddlePropsLen >= 1
    /\ \/ /\ last.op = "credits_on_success"
          /\ last.args.response_content_len <= draft.max_response_content_len
       \/ last.op = "credits_to_freeze"
    /\ last.args.nodes_to_dest <= MiddlePropsLen

\* C37: credits_to_freeze and credits_on_success return credits for every
\* hop of every route with at least one middle hop when nothing overflows.
C37_EveryHopPriced ==
    HopPriced => last.result = "Some"

\* C35: after every step, a channel that is Outgoing with a previous
\* incoming message p holds a message m with m.old_token = p.new_token,
\* p's inconsistency counter and p's move token counter plus 1 (wrapping);
\* and a step that changes a channel's current message is the acceptance
\* of a message, which raises get_move_token_counter by 1, or the
\* production of one, which raises it by 1 (wrapping), and it leaves
\* get_inconsistency_counter as it was.
C35_ChainLinkage ==
    [][ \A s \in Sides :
          /\ (Outgoing(s)' /\ chan'[s].direction.opt_prev_incoming_move_token # None) =>
                LET m == chan'[s].direction.friend_move_token
                    p == chan'[s].direction.opt_prev_incoming_move_token[1]
                IN  /\ m.old_token = p.new_token
                    /\ m.inconsistency_counter = p.inconsistency_counter
                    /\ m.move_token_counter = WrappingAdd1(p.move_token_counter)
          /\ GetCurMoveToken(chan'[s]) # GetCurMoveToken(chan[s]) =>
                /\ last'.side = s
                /\ \/ /\ IsReceive(last')
                      /\ last'.result = "Received"
                      /\ GetMoveTokenCounter(chan'[s])
                            = GetMoveTokenCounter(chan[s]) + 1
                   \/ /\ last'.op = "create"
                      /\ last'.result = "Some"
                      /\ GetMoveTokenCounter(chan'[s])
                            = WrappingAdd1(GetMoveTokenCounter(chan[s]))
                /\ GetInconsistencyCounter(chan'[s])
                      = GetInconsistencyCounter(chan[s]) ]_vars

C35_Witness ==
    \E s \in Sides :
        /\ Outgoing(s)
        /\ chan[s].direction.opt_prev_incoming_move_token # None
        /\ chan[s].direction.opt_prev_incoming_move_token[1].move_token_counter
              = MoveTokenCounterMax
        /\ GetMoveTokenCounter(chan[s]) = 0
        /\ last.op = "create"
        /\ last.side = s

\* Side a answered the peer's message p with a message m that has not
\* arrived: a is Outgoing with m built on p, the peer is still Outgoing
\* with p.
AnswerLost(a) ==
    /\ Outgoing(a)
    /\ Outgoing(Peer(a))
    /\ chan[a].direction.opt_prev_incoming_move_token
          = Some(GetCurMoveToken(chan[Peer(a)]))

\* The peer's message p is delivered to a once more.
ResentDelivery(a) ==
    /\ AnswerLost(a)
    /\ last'.op = "receive"
    /\ last'.side = a
    /\ last'.opt_move_token = Some(GetCurMoveToken(chan[Peer(a)]))

\* The answer m of a is delivered to the peer after all.
AnswerDelivery(a) ==
    /\ AnswerLost(a)
    /\ last'.op = "receive"
    /\ last'.side = Peer(a)
    /\ last'.opt_move_token = Some(GetCurMoveToken(chan[a]))

\* C36: when the answer m to p is lost and p is delivered again, the
\* answering side returns RetransmitOutgoing(m) and does not change; when
\* m is then delivered to the side still Outgoing with p, it is Received;
\* neither delivery ends in ChainInconsistency.
C36_LostMessageRecovery ==
    [][ \A a \in Sides :
          /\ ResentDelivery(a) =>
                /\ last'.result = "RetransmitOutgoing"
                /\ last'.retransmit = Some(GetCurMoveToken(chan[a]))
                /\ last'.mutations = <<>>
                /\ chan' = chan
          /\ AnswerDelivery(a) =>
                /\ last'.result = "Received"
                /\ Incoming(Peer(a))'
                /\ GetCurMoveToken(chan'[Peer(a)]) = GetCurMoveToken(chan[a]) ]_vars

(***************************************************************************)
(* The funder's sender: send_friend_iter1 over the handler's friends.      *)
(* Under SpecSender keys[1] is the handler's own key, chan is the          *)
(* handler's friends map (friend key -> channel status), net is the list   *)
(* of outgoing communications and pc tells whether the handler panicked.   *)
(***************************************************************************)
MaxOutgoingComms == 2

\* A handler call that returned.
Returned == <<"returned", "">>

\* unimplemented!() and unreachable!() panic.
Unimplemented == <<"panicked", "not yet implemented">>
Unreachable == <<"panicked", "internal error: entered unreachable code">>

ChannelConsistent(token_channel) ==
    [ tag |-> "Consistent", token_channel |-> token_channel ]

ChannelInconsistent(local_reset_terms) ==
    [ tag |-> "Inconsistent", local_reset_terms |-> local_reset_terms ]

FriendSendCommands ==
    [ try_send : BOOLEAN, resend_outgoing : BOOLEAN, wants_token : BOOLEAN ]

MoveTokenRequest(friend_move_token, token_wanted) ==
    [ type |-> "MoveTokenRequest",
      friend_move_token |-> friend_move_token,
      token_wanted |-> token_wanted ]

InconsistencyError(reset_terms) ==
    [ type |-> "InconsistencyError", reset_terms |-> reset_terms ]

FriendMessage(friend_public_key, message) ==
    [ comm |-> "FriendMessage",
      friend_public_key |-> friend_public_key,
      message |-> message ]

\* What a handler call did: how it ended, the communications it added and
\* the handler functions it entered.
Did(result, outgoing_comms, calls) ==
    [ result |-> result, outgoing_comms |-> outgoing_comms, calls |-> calls ]

\* estimate_pending_send: its body is unimplemented!().
EstimatePendingSend(friends, friend_public_key) == Unimplemented

\* MutableFunderHandler::create_outgoing_move_token: its body is
\* unimplemented!().
CreateOutgoingMoveToken(friends, friend_public_key, friend_send_commands) ==
    Did(Unimplemented, <<>>, <<"create_outgoing_move_token">>)

\* transmit_outgoing: queues the current outgoing message of the friend.
TransmitOutgoingMessage(friends, remote_public_key, token_wanted) ==
    LET friend == friends[remote_public_key] IN
    IF friend.tag = "Inconsistent"
    THEN Did(Unreachable, <<>>, <<"transmit_outgoing">>)
    ELSE IF ~IsOutgoing(friend.token_channel)
    THEN Did(Unreachable, <<>>, <<"transmit_outgoing">>)
    ELSE Did(Returned,
             << FriendMessage(remote_public_key,
                    MoveTokenRequest(GetCurMoveToken(friend.token_channel),
                                     token_wanted)) >>,
             <<"transmit_outgoing">>)

\* Variant of send_friend_iter1 that answers an inconsistent friend whatever
\* the command is.
SendFriendIter1AnswersAnyCommand(friends, friend_public_key, friend_send_commands) ==
    IF /\ ~friend_send_commands.try_send
       /\ ~friend_send_commands.resend_outgoing
       /\ ~friend_send_commands.wants_token
    THEN Did(Returned, <<>>, <<>>)
    ELSE IF friend_public_key \notin DOMAIN friends
    THEN Did(Returned, <<>>, <<>>)
    ELSE IF friends[friend_public_key].tag = "Inconsistent"
    THEN Did(Returned,
             << FriendMessage(friend_public_key,
                    InconsistencyError(
                        friends[friend_public_key].local_reset_terms)) >>,
             <<>>)
    ELSE Did(Unimplemented, <<>>, <<"estimate_pending_send">>)

\* send_friend_iter1.
SendFriendIter1(friends, friend_public_key, friend_send_commands) ==
    IF /\ ~friend_send_commands.try_send
       /\ ~friend_send_commands.resend_outgoing
       /\ ~friend_send_commands.wants_token
    THEN Did(Returned, <<>>, <<>>)
    ELSE IF friend_public_key \notin DOMAIN friends
    THEN Did(Returned, <<>>, <<>>)
    ELSE IF friends[friend_public_key].tag = "Inconsistent"
    THEN IF friend_send_commands.try_send \/ friend_send_commands.resend_outgoing
         THEN Did(Returned,
                  << FriendMessage(friend_public_key,
                         InconsistencyError(
                             friends[friend_public_key].local_reset_terms)) >>,
                  <<>>)
         ELSE Did(Returned, <<>>, <<>>)
    ELSE IF IsOutgoing(friends[friend_public_key].token_channel)
    THEN LET pending == EstimatePendingSend(friends, friend_public_key) IN
         IF pending = Unimplemented
         THEN Did(Unimplemented, <<>>, <<"estimate_pending_send">>)
         ELSE IF pending
         THEN LET sent == TransmitOutgoingMessage(friends, friend_public_key, TRUE)
              IN  Did(sent.result, sent.outgoing_comms,
                      <<"estimate_pending_send">> \o sent.calls)
         ELSE IF friend_send_commands.resend_outgoing
         THEN LET sent == TransmitOutgoingMessage(friends, friend_public_key, FALSE)
              IN  Did(sent.result, sent.outgoing_comms,
                      <<"estimate_pending_send">> \o sent.calls)
         ELSE Did(Returned, <<>>, <<"estimate_pending_send">>)
    ELSE IF friend_send_commands.resend_outgoing
    THEN Did(Panicked, <<>>, <<>>)
    ELSE CreateOutgoingMoveToken(friends, friend_public_key, friend_send_commands)

\* The channel statuses a friend of the handler may have: a channel as
\* TokenChannel::new makes it, the same with the token asked for, and the
\* inconsistent status holding that channel's reset terms.
FriendStatuses(local_public_key, friend_public_key) ==
    LET token_channel == TokenChannelNew(local_public_key, friend_public_key) IN
    { ChannelConsistent(token_channel),
      ChannelInconsistent(GetResetTerms(token_channel, local_public_key)[1]) }
    \cup
    ( IF IsOutgoing(token_channel)
      THEN { ChannelConsistent(
                 [token_channel EXCEPT !.direction.token_wanted = TRUE]) }
      ELSE {} )

InitSender ==
    /\ \E a \in PublicKeys, b \in PublicKeys : a # b /\ keys = <<a, b>>
    /\ origin = "sender"
    /\ \E known \in SUBSET (PublicKeys \ {keys[1]}) :
         chan \in [known -> UNION { FriendStatuses(keys[1], f) : f \in known }]
    /\ \A f \in DOMAIN chan : chan[f] \in FriendStatuses(keys[1], f)
    /\ pc = "running"
    /\ draft = <<>>
    /\ net = <<>>
    /\ requested = 0
    /\ last = Call("new", 0, "", "", None, <<>>, None)

SendFriendIter1Call(friend_public_key, friend_send_commands) ==
    /\ origin = "sender"
    /\ pc = "running"
    /\ Len(net) < MaxOutgoingComms
    /\ LET did == SendFriendIter1(chan, friend_public_key, friend_send_commands)
       IN  /\ net' = net \o did.outgoing_comms
           /\ pc' = IF did.result = Returned THEN "running" ELSE "panicked"
           /\ last' = Call("send_friend_iter1", 0, did.result, "", None, <<>>, None)
                      @@ [ args |-> [ friend_public_key |-> friend_public_key,
                                      friend_send_commands |-> friend_send_commands ],
                           calls |-> did.calls ]
    /\ UNCHANGED <<keys, origin, chan, draft, requested>>

NextSender ==
    \E friend_public_key \in PublicKeys, friend_send_commands \in FriendSendCommands :
        SendFriendIter1Call(friend_public_key, friend_send_commands)

SpecSender == InitSender /\ [][NextSender]_vars

\* The communications a step added to the handler's list.
Emitted == SubSeq(net', Len(net) + 1, Len(net'))

NoCommand(friend_send_commands) ==
    /\ ~friend_send_commands.try_send
    /\ ~friend_send_commands.resend_outgoing
    /\ ~friend_send_commands.wants_token

\* The friend the call names is known and in the given status.
FriendIs(call, tag) ==
    /\ call.op = "send_friend_iter1"
    /\ call.args.friend_public_key \in DOMAIN chan
    /\ chan[call.args.friend_public_key].tag = tag

\* C38: send_friend_iter1 for an Inconsistent friend never transmits a move
\* token: it adds exactly one InconsistencyError with the stored local reset
\* terms when try_send or resend_outgoing is set and nothing when only
\* wants_token is set; with no command set, or an unknown friend, it adds
\* nothing; the handler's friends are never changed.
C38_InconsistentNeverTransmits ==
    [][ last'.op = "send_friend_iter1" =>
          LET friend_public_key == last'.args.friend_public_key
              commands == last'.args.friend_send_commands
          IN  /\ FriendIs(last', "Inconsistent") =>
                    /\ last'.result = Returned
                    /\ chan' = chan
                    /\ \A i \in DOMAIN Emitted :
                          Emitted[i].message.type # "MoveTokenRequest"
                    /\ Emitted =
                         IF /\ ~NoCommand(commands)
                            /\ commands.try_send \/ commands.resend_outgoing
                         THEN << FriendMessage(friend_public_key,
                                    InconsistencyError(
                                        chan[friend_public_key].local_reset_terms)) >>
                         ELSE <<>>
              /\ (NoCommand(commands) \/ friend_public_key \notin DOMAIN chan) =>
                    /\ last'.result = Returned
                    /\ Emitted = <<>>
                    /\ chan' = chan ]_vars

\* An inconsistent friend was told to try sending, and the reset terms went
\* out; on another call only wants_token was set and nothing was added.
C38_Witness ==
    /\ origin = "sender"
    /\ FriendIs(last, "Inconsistent")
    /\ last.args.friend_send_commands.wants_token
    /\ ~last.args.friend_send_commands.try_send
    /\ ~last.args.friend_send_commands.resend_outgoing
    /\ Len(net) = 1
    /\ net[1].message =
          InconsistencyError(chan[last.args.friend_public_key].local_reset_terms)

\* C39: send_friend_iter1 for a consistent Outgoing channel never makes a
\* new move token: it re-transmits the current outgoing message (asking for
\* the token when something is pending, not asking when only
\* resend_outgoing is set) and otherwise sends nothing; transmit_outgoing is
\* entered only for a consistent Outgoing channel and a new move token is
\* made only for an Incoming one.
C39_OutgoingOnlyRetransmits ==
    [][ last'.op = "send_friend_iter1" =>
          LET friend_public_key == last'.args.friend_public_key
              commands == last'.args.friend_send_commands
              outgoing == /\ FriendIs(last', "Consistent")
                          /\ IsOutgoing(chan[friend_public_key].token_channel)
              incoming == /\ FriendIs(last', "Consistent")
                          /\ ~IsOutgoing(chan[friend_public_key].token_channel)
              current(token_wanted) ==
                  FriendMessage(friend_public_key,
                      MoveTokenRequest(
                          GetCurMoveToken(chan[friend_public_key].token_channel),
                          token_wanted))
          IN  /\ (outgoing /\ ~NoCommand(commands)) =>
                    /\ chan' = chan
                    /\ \/ Emitted = << current(TRUE) >>
                       \/ Emitted = << current(FALSE) >> /\ commands.resend_outgoing
                       \/ Emitted = <<>> /\ ~commands.resend_outgoing
              /\ (\E i \in DOMAIN last'.calls : last'.calls[i] = "transmit_outgoing")
                    => outgoing
              /\ (\E i \in DOMAIN last'.calls :
                      last'.calls[i] = "create_outgoing_move_token")
                    => incoming ]_vars

(***************************************************************************)
(* The channeler's connector: ChannelerConnector::connect.                 *)
(* Under SpecConnect keys[1] is the local key, draft holds the connector's *)
(* backoff_ticks and the address asked for, pc is the position of the      *)
(* connect future, chan the raw connection of the attempt under way, net   *)
(* the ticks the current sleep still waits for, requested the number of    *)
(* the attempt and last what connect resolved to.                          *)
(***************************************************************************)
MaxBackoffTicks == 3
MaxAttempts == 4

\* The connection of an attempt: raw as the client connector gives it,
\* secure after the handshake.
ConnPair(attempt, public_key, secure) ==
    [ attempt |-> attempt, public_key |-> public_key, secure |-> secure ]

\* secure_connect after the client connector answered: `?` gives up on
\* None, an error of create_secure_channel is logged and gives None.
SecureConnect(opt_conn_pair, handshake_ok) ==
    IF opt_conn_pair = None THEN None
    ELSE IF handshake_ok
    THEN Some(ConnPair(opt_conn_pair[1].attempt, opt_conn_pair[1].public_key, TRUE))
    ELSE None

\* connect has not resolved yet.
Pending == <<"pending", "">>

\* Variant of the loop body of connect that gives up after a failed attempt.
ConnectLoopGivesUp(opt_conn_pair, backoff_ticks) ==
    [ pc |-> "resolved", resolved |-> opt_conn_pair, ticks |-> 0 ]

\* The body of the loop of connect: return the pair, or sleep.
ConnectLoop(opt_conn_pair, backoff_ticks) ==
    IF opt_conn_pair # None
    THEN [ pc |-> "resolved", resolved |-> opt_conn_pair, ticks |-> 0 ]
    ELSE [ pc |-> "sleeping", resolved |-> Pending, ticks |-> backoff_ticks ]

ConnectCallRecord(resolved, slept) ==
    Call("connect", 0, resolved, "", None, <<>>, None) @@ [ slept |-> slept ]

InitConnect ==
    /\ \E a \in PublicKeys, b \in PublicKeys : a # b /\ keys = <<a, b>>
    /\ origin = "connect"
    /\ \E backoff_ticks \in 0 .. MaxBackoffTicks :
         draft = [ backoff_ticks |-> backoff_ticks, public_key |-> keys[2] ]
    /\ pc = "idle"
    /\ chan = None
    /\ net = 0
    /\ requested = 0
    /\ last = Call("new", 0, "", "", None, <<>>, None) @@ [ slept |-> 0 ]

\* connect is called: the first secure_connect starts.
ConnectCall ==
    /\ origin = "connect"
    /\ pc = "idle"
    /\ pc' = "connecting"
    /\ requested' = 1
    /\ last' = ConnectCallRecord(Pending, 0)
    /\ UNCHANGED <<keys, origin, chan, draft, net>>

\* The outcome of one attempt reaches the loop of connect.
AttemptDone(opt_conn_pair, handshake_ok) ==
    LET loop == ConnectLoop(SecureConnect(opt_conn_pair, handshake_ok),
                            draft.backoff_ticks)
    IN  /\ pc' = loop.pc
        /\ net' = loop.ticks
        /\ chan' = None
        /\ last' = ConnectCallRecord(loop.resolved, 0)
        /\ UNCHANGED <<keys, origin, draft, requested>>

\* client_connector.connect answers: a raw connection, or None.
ClientConnect(connected) ==
    /\ origin = "connect"
    /\ pc = "connecting"
    /\ IF connected
       THEN /\ pc' = "handshaking"
            /\ chan' = Some(ConnPair(requested, draft.public_key, FALSE))
            /\ UNCHANGED <<keys, origin, draft, net, requested, last>>
       ELSE AttemptDone(None, FALSE)

\* create_secure_channel answers: Ok, or an error.
CreateSecureChannel(handshake_ok) ==
    /\ origin = "connect"
    /\ pc = "handshaking"
    /\ AttemptDone(chan, handshake_ok)

\* The timer ticks while connect sleeps.
TimerTick ==
    /\ origin = "connect"
    /\ pc = "sleeping"
    /\ net > 0
    /\ net' = net - 1
    /\ last' = [last EXCEPT !.slept = @ + 1]
    /\ UNCHANGED <<keys, origin, chan, pc, draft, requested>>

\* sleep_ticks resolved Ok: the next secure_connect starts. The number of
\* the attempt is kept for the record only and stops counting at
\* MaxAttempts.
SleepDone ==
    /\ origin = "connect"
    /\ pc = "sleeping"
    /\ net = 0
    /\ pc' = "connecting"
    /\ requested' = IF requested < MaxAttempts THEN requested + 1 ELSE requested
    /\ UNCHANGED <<keys, origin, chan, draft, net, last>>

\* sleep_ticks resolved to an error: unwrap panics.
SleepFailed ==
    /\ origin = "connect"
    /\ pc = "sleeping"
    /\ pc' = "panicked"
    /\ last' = ConnectCallRecord(Panicked, last.slept)
    /\ UNCHANGED <<keys, origin, chan, draft, net, requested>>

NextConnect ==
    \/ ConnectCall
    \/ \E connected \in BOOLEAN : ClientConnect(connected)
    \/ \E handshake_ok \in BOOLEAN : CreateSecureChannel(handshake_ok)
    \/ TimerTick
    \/ SleepDone
    \/ SleepFailed

SpecConnect == InitConnect /\ [][NextConnect]_vars

\* The timer keeps ticking, the executor keeps polling, and an attempt
\* made again and again succeeds at last.
SpecConnectLive ==
    /\ SpecConnect
    /\ WF_vars(ConnectCall)
    /\ WF_vars(TimerTick)
    /\ WF_vars(SleepDone)
    /\ SF_vars(ClientConnect(TRUE))
    /\ SF_vars(CreateSecureChannel(TRUE))

\* C40: connect never resolves to None; after each failed attempt it
\* sleeps backoff_ticks ticks before the next attempt, and it resolves with
\* the secure connection of the first attempt that succeeds (no attempt is
\* made after it); if the timer keeps ticking (sleep_ticks never fails) and
\* some attempt succeeds at last, connect resolves.
C40_ConnectResolves ==
    /\ [][ /\ pc' = "resolved" =>
                /\ pc = "handshaking"
                /\ last'.result = Some(ConnPair(requested, draft.public_key, TRUE))
           /\ (pc \in {"connecting", "handshaking"} /\ pc' # "handshaking")
                => (pc' = "resolved" \/ (pc' = "sleeping" /\ last'.slept = 0))
           /\ (pc = "sleeping" /\ pc' = "connecting")
                => last.slept = draft.backoff_ticks
           /\ pc = "resolved" => UNCHANGED vars ]_vars
    /\ [](pc = "resolved" => last.result # None)
    /\ (<>(pc = "panicked") \/ <>(pc = "resolved"))

\* connect resolved with the connection of a later attempt, after it slept
\* through a backoff of more than one tick.
C40_Witness ==
    /\ origin = "connect"
    /\ pc = "resolved"
    /\ draft.backoff_ticks > 1
    /\ last.result # None
    /\ last.result[1].attempt > 2

====
